---- MODULE Spec2Model ----
(***************************************************************************)
(* Model of the zesbe-modern core:                                         *)
(*   - MiniMaxProvider.chatStream (src/src/ai/minimax.ts): the streaming   *)
(*     parser and tool-call delta accumulator, specification SpecStream;   *)
(*   - App.handleSubmit (src/unnamed/part_007): the agent loop over the    *)
(*     UI message list and the request history, specification Spec, and    *)
(*     SpecLive with the fairness of the event loop.                       *)
(*   - MCPManager (src/src/mcp/client.ts): the pool of MCP servers and the *)
(*     routing of qualified tool names, specification SpecGateway;         *)
(*   - MiniMaxProvider.chat (src/src/ai/minimax.ts): the construction of   *)
(*     the request body and the single-shot request, specification         *)
(*     SpecChat.                                                           *)
(*                                                                         *)
(* A response body is a sequence of tokens.  A token stands for a run of   *)
(* bytes: "\n" is the newline, "data: " the frame prefix, "}" the closing  *)
(* brace of a JSON document, and every other token is the rest of a JSON   *)
(* document (named after the frame it encodes), the literal "[DONE]" or    *)
(* non-JSON noise.  Chunks cut the token sequence anywhere, so a chunk can *)
(* end inside a line and inside a JSON document.                           *)
(***************************************************************************)
EXTENDS Integers, Sequences, FiniteSets, TLC

\* ---------------------------------------------------------------- bounds
MaxFrames == 3            \* lines in a response body
MaxTurns == 2             \* user turns in a session
MaxVaried == 3            \* model turns of a session whose reply is free;
                          \* after them the model repeats its last reply
MaxOps == 3               \* manager operations of a gateway session
MaxMessages == 2          \* messages of a single-shot request
MaxTools == 1             \* tool definitions of a single-shot request

\* ------------------------------------------------------ program constants
maxIterations == 10       \* part_007:571
DescriptionLimit == 1000  \* minimax.ts:107

\* ------------------------------------------------------------- utilities
Last(s) == s[Len(s)]

Front(s) == SubSeq(s, 1, Len(s) - 1)

\* String.prototype.split("\n"): k newlines give k+1 parts, the last one
\* being what follows the last newline (possibly empty).
RECURSIVE SplitFrom(_, _)
SplitFrom(cur, s) ==
  IF s = <<>> THEN <<cur>>
  ELSE IF Head(s) = "\n" THEN <<cur>> \o SplitFrom(<<>>, Tail(s))
  ELSE SplitFrom(Append(cur, Head(s)), Tail(s))

Split(s) == SplitFrom(<<>>, s)

\* --------------------------------------------------- JSON text of arguments
\* Argument text is a sequence of characters.  It is a JSON document iff it
\* is "{" keys "}"; the parsed object is represented by its key sequence, so
\* {} is <<>>.  Anything else makes JSON.parse throw.
KeyChars == {"p"}

IsJSONObject(t) ==
  /\ Len(t) >= 2
  /\ t[1] = "{"
  /\ t[Len(t)] = "}"
  /\ \A i \in 2..(Len(t) - 1) : t[i] \in KeyChars

JSONParseObject(t) == SubSeq(t, 2, Len(t) - 1)

EmptyObjectText == <<"{", "}">>

\* ------------------------------------------------- frames on the wire
NoId == ""

Delta(index, id, name, args) ==
  [index |-> index, id |-> id, name |-> name, arguments |-> args]

Chunk(content, calls, finish) ==
  [content |-> content, tool_calls |-> calls, finish_reason |-> finish]

\* The JSON documents that occur in the modelled bodies, by the token that
\* carries the document up to its closing brace (OpenAIStreamChunk).
FrameOf ==
     "txt"  :> Chunk("hi", <<>>, "null")
  @@ "o0"   :> Chunk("", <<Delta(0, "c1", "read_file", <<"{">>)>>, "null")
  @@ "b0"   :> Chunk("", <<Delta(0, NoId, "", <<"p", "}">>)>>, "null")
  @@ "k0"   :> Chunk("", <<Delta(0, "c1", "read_file", <<"{", "p", "}">>)>>, "null")
  @@ "r0"   :> Chunk("", <<Delta(0, "c1", "", <<>>)>>, "null")
  @@ "a1"   :> Chunk("", <<Delta(1, "c2", "run_command", <<>>)>>, "null")
  @@ "fin"  :> Chunk("", <<>>, "tool_calls")
  @@ "bfin" :> Chunk("ok", <<Delta(0, NoId, "", <<"p", "}">>)>>, "tool_calls")
  @@ "stop" :> Chunk("", <<>>, "stop")

FrameTokens == DOMAIN FrameOf

\* The lines a body is made of (without their newline).
DataLine(tok) == <<"data: ", tok, "}">>

WireLines ==
  {DataLine(tok) : tok \in FrameTokens}
    \cup {<<"data: ", "[DONE]">>,      \* the termination sentinel
          <<"data: ", "junk">>,        \* a data frame that is not JSON
          <<>>}                         \* the blank line between SSE events

\* JSON.parse(trimmed.slice(6)) of a line that starts with "data: ".
IsJSONChunk(payload) ==
  /\ Len(payload) = 2
  /\ payload[1] \in FrameTokens
  /\ payload[2] = "}"

JSONParseChunk(payload) == FrameOf[payload[1]]

\* ---------------------------------------------------------------- events
\* StreamChunk; slot and line are ghost fields: the slot the call was
\* accumulated in and the number of the line whose processing yielded it.
\* The error text is `MiniMax API error: ${status} - ${body}` or a fixed
\* message: it is kept as the parts it is formatted from.
ErrorText(msg, status, body) == [msg |-> msg, status |-> status, body |-> body]

NoError == ErrorText("", 0, <<>>)

TextEvent(content, line) ==
  [type |-> "text", content |-> content, id |-> "", name |-> "",
   arguments |-> <<>>, error |-> NoError, slot |-> -1, line |-> line]

ToolCallEvent(id, name, args, slot, line) ==
  [type |-> "tool_call", content |-> "", id |-> id, name |-> name,
   arguments |-> args, error |-> NoError, slot |-> slot, line |-> line]

DoneEvent ==
  [type |-> "done", content |-> "", id |-> "", name |-> "",
   arguments |-> <<>>, error |-> NoError, slot |-> -1, line |-> 0]

ErrorEvent(err) ==
  [type |-> "error", content |-> "", id |-> "", name |-> "",
   arguments |-> <<>>, error |-> err, slot |-> -1, line |-> 0]

\* ------------------------------------------------------- toolCallsBuffer
\* A JavaScript Map iterates in insertion order and set() on a present key
\* keeps the key's position: the buffer is the sequence of its entries.
MapHas(m, k) == \E i \in 1..Len(m) : m[i].index = k

MapGet(m, k) == m[CHOOSE i \in 1..Len(m) : m[i].index = k]

MapSet(m, k, v) ==
  IF MapHas(m, k)
    THEN [i \in 1..Len(m) |-> IF m[i].index = k THEN v ELSE m[i]]
    ELSE Append(m, v)

Entry(index, id, name, args) ==
  [index |-> index, id |-> id, name |-> name, args |-> args]

\* minimax.ts:293-304, one element of delta.tool_calls
ApplyDelta(m, tc) ==
  IF tc.id # NoId
    THEN MapSet(m, tc.index,
           Entry(tc.index, tc.id,
                 IF tc.name # "" THEN tc.name
                 ELSE IF MapHas(m, tc.index) THEN MapGet(m, tc.index).name
                 ELSE "",
                 tc.arguments))
  ELSE IF MapHas(m, tc.index) /\ tc.arguments # <<>>
    THEN MapSet(m, tc.index,
           [MapGet(m, tc.index) EXCEPT !.args = @ \o tc.arguments])
  ELSE m

RECURSIVE ApplyDeltas(_, _)
ApplyDeltas(m, tcs) ==
  IF tcs = <<>> THEN m ELSE ApplyDeltas(ApplyDelta(m, Head(tcs)), Tail(tcs))

\* minimax.ts:307-318: one tool_call per entry in Map order; a JSON.parse
\* that throws leaves the loop (the throw is caught at line 319), the
\* events already yielded stay yielded.
RECURSIVE Finalise(_, _)
Finalise(m, line) ==
  IF m = <<>> THEN <<>>
  ELSE LET tc == Head(m)
           text == IF tc.args = <<>> THEN EmptyObjectText ELSE tc.args
       IN IF IsJSONObject(text)
            THEN <<ToolCallEvent(tc.id, tc.name, JSONParseObject(text),
                                 tc.index, line)>>
                   \o Finalise(Tail(m), line)
            ELSE <<>>

\* mutant: a payload that fails to parse also resets the accumulators
CatchInvalidJSONResets(st) == [st EXCEPT !.tcb = <<>>]

\* minimax.ts:319-321: the catch block of a frame is empty
CatchInvalidJSON(st) == st

\* mutant: the finalised calls of a frame are yielded before its text
FrameEventsCallsFirst(texts, calls) == calls \o texts

\* minimax.ts:287-318: the events of one frame in the order of their yields
FrameEvents(texts, calls) == texts \o calls

\* minimax.ts:278-323, the body of the loop over the complete lines of a
\* chunk.  st = [tcb, out, line]: the buffer, the events yielded so far and
\* the number of lines processed.
LineStep(st, ln) ==
  LET n == st.line + 1
      skip == [st EXCEPT !.line = n]
  IN IF ln = <<>> \/ ln = <<"data: ", "[DONE]">> THEN skip
     ELSE IF Head(ln) # "data: " THEN skip
     ELSE IF ~IsJSONChunk(Tail(ln)) THEN CatchInvalidJSON(skip)
     ELSE LET chunk == JSONParseChunk(Tail(ln))
              texts == IF chunk.content # ""
                         THEN <<TextEvent(chunk.content, n)>> ELSE <<>>
              tcb2 == ApplyDeltas(st.tcb, chunk.tool_calls)
              calls == IF chunk.finish_reason = "tool_calls"
                         THEN Finalise(tcb2, n) ELSE <<>>
          IN [tcb |-> tcb2, out |-> st.out \o FrameEvents(texts, calls), line |-> n]

RECURSIVE FoldLines(_, _)
FoldLines(st, lns) ==
  IF lns = <<>> THEN st ELSE FoldLines(LineStep(st, Head(lns)), Tail(lns))

\* minimax.ts:274-276: the complete lines of buffer + chunk; the part after
\* the last newline is held back.
CompleteLines(buf, chunk) == Front(Split(buf \o chunk))

\* mutant: the rest of the chunk after its last newline is thrown away
HeldBackDropped(buf, chunk) == <<>>

HeldBack(buf, chunk) == Last(Split(buf \o chunk))

\* ------------------------------------------------------------------ state
VARIABLES
  net,              \* what the network does to this chatStream call
  gen,              \* position of the chatStream generator
  pos,              \* tokens of the body delivered by reader.read() so far
  buffer,           \* minimax.ts:266
  lines,            \* lines of the current chunk not yet processed (:278)
  toolCallsBuffer,  \* minimax.ts:267
  lineNo,           \* ghost: lines processed
  events,           \* the StreamChunks yielded so far
  split,            \* ghost: a chunk ended inside a JSON document
  reader            \* minimax.ts:259, the reader and the body stream behind it

streamVars == <<net, gen, pos, buffer, lines, toolCallsBuffer, lineNo, events, split, reader>>

VARIABLES
  yolo,             \* config.yolo
  messages,         \* part_007:84, the UI message list (React state)
  isLoading,        \* part_007:85
  error,            \* part_007:87
  aiMessages,       \* part_007:548, the request history of the turn
  iteration,        \* part_007:572
  fullText,         \* part_007:578
  hasToolCalls,     \* part_007:579
  toolResults,      \* part_007:580
  pc,               \* position of handleSubmit
  reply,            \* what the generator of the current chatStream call yields
  cursor,           \* chunks of reply consumed by the for await loop
  turns,            \* ghost: user turns submitted
  varied,           \* ghost: model turns of the session with a free reply
  streamCalls       \* ghost: chatStream calls of the current user turn

agentVars == <<yolo, messages, isLoading, error, aiMessages, iteration, fullText,
               hasToolCalls, toolResults, pc, reply, cursor, turns, varied,
               streamCalls>>

VARIABLES
  mcpServers,       \* client.ts:20, config.mcpServers as Object.entries
  clients,          \* client.ts:14, the live map in insertion order
  initialized,      \* client.ts:15
  spawned,          \* ghost: subprocesses spawned so far (names a handle)
  closed,           \* ghost: handles on which close() has been called
  op,               \* the manager operation in flight, or the last one
  ops,              \* ghost: manager operations started
  mcpCall,          \* the callTool invocation in flight, or the last one
  mcpTools          \* part_007:97, the MCP tools offered to the model (React state)

gatewayVars == <<mcpServers, clients, initialized, spawned, closed, op, ops, mcpCall,
                 mcpTools>>

VARIABLES
  chatRequest,      \* the ChatRequest given to chat() or to chatStream()
  chatBody,         \* minimax.ts:178-189, the request body
  chatResponse,     \* what fetch resolves to
  chatPc,           \* position of chat()
  chatResult        \* how chat() settled

chatVars == <<chatRequest, chatBody, chatResponse, chatPc, chatResult>>

vars == <<streamVars, agentVars, gatewayVars, chatVars>>

\* ------------------------------------------------ operations of the gateway
\* How an asynchronous operation settled: kind is "none" while it has not.
Settled(kind, value) == [kind |-> kind, value |-> value]

Pending == Settled("none", <<>>)

\* A manager operation, started when the one before it has settled.  These
\* fields are ghosts: before, the live map when the operation started;
\* attempts, the servers it has spawned a subprocess for; failed, the
\* servers whose connectServer threw; closeFailed, whether a close() of the
\* operation threw; after, the operation called before this one; again,
\* whether, when the operation started, an initialize had returned and
\* disconnectAll had not been called since.
NoOperation ==
  [kind |-> "none", pc |-> "idle", i |-> 0, name |-> <<>>, handle |-> 0,
   before |-> <<>>, attempts |-> <<>>, failed |-> <<>>, closeFailed |-> FALSE,
   after |-> "none", again |-> FALSE, result |-> Pending]

Operation(kind, at, i, name, handle, before, result) ==
  [kind |-> kind, pc |-> at, i |-> i, name |-> name, handle |-> handle,
   before |-> before, attempts |-> <<>>, failed |-> <<>>, closeFailed |-> FALSE,
   after |-> op.kind,
   again |-> IF op.kind = "initialize" THEN op.result.kind = "returned"
             ELSE IF op.kind = "disconnectAll" THEN FALSE
             ELSE op.again,
   result |-> result]

\* A callTool invocation; handle, sent and answer are ghosts: the subprocess
\* the call was forwarded to, the tool name it was forwarded with and what
\* the subprocess call settled to ("" while it has not).
Invocation(at, toolName, handle, sent, result) ==
  [pc |-> at, toolName |-> toolName, handle |-> handle, sent |-> sent,
   answer |-> "", result |-> result]

NoInvocation == Invocation("idle", <<>>, 0, <<>>, Pending)

\* No gateway: the manager of the other specifications is never used.
NoGateway ==
  /\ mcpServers = <<>>
  /\ clients = <<>>
  /\ initialized = FALSE
  /\ spawned = 0
  /\ closed = {}
  /\ op = NoOperation
  /\ ops = MaxOps
  /\ mcpCall = NoInvocation
  /\ mcpTools = <<>>

\* No single-shot request: chat() of the other specifications is not called.
NoChat ==
  /\ chatRequest = <<>>
  /\ chatBody = <<>>
  /\ chatResponse = <<>>
  /\ chatPc = "off"
  /\ chatResult = Pending

\* ------------------------------------------------- the endpoint's answers
RECURSIVE Bodies(_)
Bodies(n) ==
  IF n = 0 THEN {<<>>}
  ELSE Bodies(n - 1)
         \cup {b \o ln \o <<"\n">> : b \in Bodies(n - 1), ln \in WireLines}

\* A body either ends with a newline or stops right after its last line.
StreamBodies ==
  Bodies(MaxFrames) \cup {Front(b) : b \in Bodies(MaxFrames) \ {<<>>}}

ErrorBodies == {<<"junk">>, DataLine("txt") \o <<"\n">>}

ErrorStatuses == {400, 500}

NetResult(outcome, status, body) ==
  [outcome |-> outcome, status |-> status, body |-> body]

NetResults ==
  {NetResult("throw", 0, <<>>), NetResult("no_body", 200, <<>>)}
    \cup {NetResult("not_ok", s, b) : s \in ErrorStatuses, b \in ErrorBodies}
    \cup {NetResult("ok", 200, b) : b \in StreamBodies}


\* ---------------------------------------------------- messages (part_007)
\* Text is a sequence of fragments; "" is <<>>.  An absent toolCallId is "",
\* an absent toolCalls is <<>>.
ChatMessage(role, content, rawContent, toolCallId, toolCalls) ==
  [role |-> role, content |-> content, rawContent |-> rawContent,
   toolCallId |-> toolCallId, toolCalls |-> toolCalls]

AIMessage(role, content, toolCallId, toolCalls) ==
  [role |-> role, content |-> content, toolCallId |-> toolCallId,
   toolCalls |-> toolCalls]

ToolCall(id, name, args) == [id |-> id, name |-> name, arguments |-> args]

SystemPrompt == AIMessage("system", <<"CODING_SYSTEM_PROMPT">>, "", <<>>)

WelcomeMessage == ChatMessage("system", <<"Welcome">>, <<>>, "", <<>>)

UserText == <<"q">>

ThinkBlock == "<think>t</think>"

\* utils/index.ts:29-32
filterThinking(text) == SelectSeq(text, LAMBDA f : f # ThinkBlock)

\* part_007:552-566, one stored message as it is sent to the API
ToAIMessage(m) ==
  AIMessage(m.role,
            IF m.rawContent # <<>> THEN m.rawContent ELSE m.content,
            IF m.role = "tool" /\ m.toolCallId # "" THEN m.toolCallId ELSE "",
            IF m.role = "assistant" /\ m.toolCalls # <<>> THEN m.toolCalls ELSE <<>>)

RECURSIVE MapToAI(_)
MapToAI(ms) ==
  IF ms = <<>> THEN <<>> ELSE <<ToAIMessage(Head(ms))>> \o MapToAI(Tail(ms))

\* part_007:548-568
BuildHistory(ms, text) ==
  <<SystemPrompt>>
    \o MapToAI(SelectSeq(ms, LAMBDA m : m.role # "system"))
    \o <<AIMessage("user", text, "", <<>>)>>

\* ------------------------------------------------------ tool execution
\* part_007:627-646.  The outcome of a call is a function of the call.
ToolResult(success, output, err) == [success |-> success, output |-> output, error |-> err]

\* The cases of the switch of executeTool (one of them is modelled).
BuiltinTools == {"read_file"}

\* debug-all-tools.mjs:902-1770.  A name without a case returns a failure;
\* read_file without a path raises inside the try (resolve(undefined)) and
\* the catch turns the exception into a failure; otherwise the tool
\* succeeds.
executeTool(call) ==
  IF call.name \notin BuiltinTools
    THEN ToolResult(FALSE, <<>>, <<"Unknown tool: ", call.name>>)
  ELSE IF call.arguments = <<>>
    THEN ToolResult(FALSE, <<>>, <<"missing argument">>)
  ELSE ToolResult(TRUE, <<"out">>, <<>>)

\* part_007:628, name.startsWith("mcp_"), over the names that occur
IsMCPName(name) ==
  name \in {"mcp_fs_list", "mcp_fs_fail", "mcp_gone_list", "mcp_bad"}

\* client.ts:98-129.  The server fs is connected; its tool fail makes the
\* client's callTool reject, which the catch turns into text.
callTool(call) ==
  IF call.name = "mcp_bad" THEN <<"Invalid MCP tool name: ", call.name>>
  ELSE IF call.name = "mcp_gone_list" THEN <<"MCP server not connected: ", "gone">>
  ELSE IF call.name = "mcp_fs_fail" THEN <<"MCP tool error: ", "boom">>
  ELSE <<"mcp out">>

ToolOutput(call) ==
  IF IsMCPName(call.name) THEN callTool(call)
  ELSE LET result == executeTool(call)
       IN IF result.success
            THEN (IF result.output # <<>> THEN result.output ELSE <<"(no output)">>)
            ELSE <<"Error: ">> \o result.error

\* mutant: the arguments of the call are not kept for the history
ToolResultEntryNoArguments(call, output) ==
  [id |-> call.id, name |-> call.name, output |-> output, arguments |-> <<>>]

\* part_007:648-653
ToolResultEntry(call, output) ==
  [id |-> call.id, name |-> call.name, output |-> output, arguments |-> call.arguments]

\* ---------------------------------------------------- the model's replies
\* What one chatStream generator yields: its chunks, and whether it then
\* throws instead of returning.
Reply(chunks, throws) == [chunks |-> chunks, throws |-> throws]

TextChunk(f) == TextEvent(f, 0)

CallA == ToolCallEvent("c1", "read_file", <<"p">>, 0, 0)

CallB == ToolCallEvent("c2", "mcp_fs_list", <<>>, 1, 0)

CallC == ToolCallEvent("c2", "read_file", <<>>, 1, 0)

CallD == ToolCallEvent("c1", "nope", <<"p">>, 0, 0)

CallE == ToolCallEvent("c2", "mcp_gone_list", <<>>, 1, 0)

CallF == ToolCallEvent("c3", "mcp_fs_fail", <<>>, 2, 0)

StreamError == ErrorEvent(ErrorText("MiniMax API error", 500, <<"junk">>))

Replies ==
  { Reply(<<TextChunk("hi"), DoneEvent>>, FALSE),
    Reply(<<TextChunk(ThinkBlock), DoneEvent>>, FALSE),
    Reply(<<DoneEvent>>, FALSE),
    Reply(<<StreamError>>, FALSE),
    Reply(<<>>, TRUE),
    Reply(<<TextChunk("hi")>>, TRUE),
    Reply(<<CallA, DoneEvent>>, FALSE),
    Reply(<<TextChunk("hi"), CallA, CallB, DoneEvent>>, FALSE),
    Reply(<<CallC, DoneEvent>>, FALSE),
    Reply(<<CallD, CallE, CallF, DoneEvent>>, FALSE),
    Reply(<<CallA>>, TRUE) }

NoReply == Reply(<<>>, FALSE)

\* ------------------------------------------------------------ handleSubmit
NoSession ==
  /\ yolo = FALSE
  /\ messages = <<>>
  /\ isLoading = FALSE
  /\ error = NoError
  /\ aiMessages = <<>>
  /\ iteration = 0
  /\ fullText = <<>>
  /\ hasToolCalls = FALSE
  /\ toolResults = <<>>
  /\ pc = "idle"
  /\ reply = NoReply
  /\ cursor = 1
  /\ turns = MaxTurns
  /\ varied = MaxVaried
  /\ streamCalls = 0

\* ------------------------------------------------------------- chatStream
\* A generator as chatStream() returns it, before its first next().
FreshStream ==
  /\ gen = "fetch"
  /\ pos = 0
  /\ buffer = <<>>
  /\ lines = <<>>
  /\ toolCallsBuffer = <<>>
  /\ lineNo = 0
  /\ events = <<>>
  /\ split = FALSE
  /\ reader = "none"

InitStream ==
  /\ net \in NetResults
  /\ FreshStream
  /\ NoSession
  /\ NoGateway
  /\ NoChat

\* minimax.ts:243-251: fetch rejects (connection failure); nothing catches
\* it inside the generator.
FetchThrows ==
  /\ gen = "fetch"
  /\ net.outcome = "throw"
  /\ gen' = "thrown"
  /\ UNCHANGED <<net, pos, buffer, lines, toolCallsBuffer, lineNo, events, split, reader>>
  /\ UNCHANGED <<agentVars, gatewayVars, chatVars>>

\* mutant: the return after the error event is missing, the error body is
\* then read as a stream
RespondNotOkNoReturn ==
  /\ gen = "fetch"
  /\ net.outcome = "not_ok"
  /\ events' = Append(events, ErrorEvent(ErrorText("MiniMax API error", net.status, net.body)))
  /\ gen' = "read"
  /\ UNCHANGED <<net, pos, buffer, lines, toolCallsBuffer, lineNo, split, reader>>
  /\ UNCHANGED <<agentVars, gatewayVars, chatVars>>

\* minimax.ts:253-257
RespondNotOk ==
  /\ gen = "fetch"
  /\ net.outcome = "not_ok"
  /\ events' = Append(events, ErrorEvent(ErrorText("MiniMax API error", net.status, net.body)))
  /\ gen' = "returned"
  /\ UNCHANGED <<net, pos, buffer, lines, toolCallsBuffer, lineNo, split, reader>>
  /\ UNCHANGED <<agentVars, gatewayVars, chatVars>>

\* minimax.ts:259-263
RespondNoBody ==
  /\ gen = "fetch"
  /\ net.outcome = "no_body"
  /\ events' = Append(events, ErrorEvent(ErrorText("No response body", 0, <<>>)))
  /\ gen' = "returned"
  /\ UNCHANGED <<net, pos, buffer, lines, toolCallsBuffer, lineNo, split, reader>>
  /\ UNCHANGED <<agentVars, gatewayVars, chatVars>>

\* minimax.ts:325-327, the finally block: the lock on the body stream is
\* given back; a stream that is neither read to its end nor errored stays
\* readable, and the connection that feeds it stays open.
releaseLock(stream) == IF stream = "locked" THEN "readable" ELSE stream

\* minimax.ts:259-267
OpenStream ==
  /\ gen = "fetch"
  /\ net.outcome = "ok"
  /\ gen' = "read"
  /\ reader' = "locked"
  /\ UNCHANGED <<net, pos, buffer, lines, toolCallsBuffer, lineNo, events, split>>
  /\ UNCHANGED <<agentVars, gatewayVars, chatVars>>

\* minimax.ts:271-276: reader.read() delivers the next n tokens.
Read ==
  /\ gen = "read"
  /\ lines = <<>>
  /\ \E n \in 1..(Len(net.body) - pos) :
       LET chunk == SubSeq(net.body, pos + 1, pos + n)
       IN /\ lines' = CompleteLines(buffer, chunk)
          /\ buffer' = HeldBack(buffer, chunk)
          /\ pos' = pos + n
          /\ split' = (split \/ (Last(chunk) \notin {"\n", "}", "[DONE]", "junk"}))
  /\ UNCHANGED <<net, gen, toolCallsBuffer, lineNo, events, reader>>
  /\ UNCHANGED <<agentVars, gatewayVars, chatVars>>

\* minimax.ts:278-323, one iteration of the loop over the lines
ProcessLine ==
  /\ gen = "read"
  /\ lines # <<>>
  /\ LET st == LineStep([tcb |-> toolCallsBuffer, out |-> events, line |-> lineNo],
                        Head(lines))
     IN /\ toolCallsBuffer' = st.tcb
        /\ events' = st.out
        /\ lineNo' = st.line
  /\ lines' = Tail(lines)
  /\ UNCHANGED <<net, gen, pos, buffer, split, reader>>
  /\ UNCHANGED <<agentVars, gatewayVars, chatVars>>

\* minimax.ts:272, 325-329: input exhausted
ReadDone ==
  /\ gen = "read"
  /\ lines = <<>>
  /\ pos = Len(net.body)
  /\ events' = Append(events, DoneEvent)
  /\ gen' = "returned"
  /\ reader' = releaseLock("closed")
  /\ UNCHANGED <<net, pos, buffer, lines, toolCallsBuffer, lineNo, split>>
  /\ UNCHANGED <<agentVars, gatewayVars, chatVars>>

\* minimax.ts:271, 325-327: reader.read() rejects (the connection breaks);
\* the finally block releases the lock and the rejection leaves the generator.
ReadThrows ==
  /\ gen = "read"
  /\ lines = <<>>
  /\ gen' = "thrown"
  /\ reader' = releaseLock("errored")
  /\ UNCHANGED <<net, pos, buffer, lines, toolCallsBuffer, lineNo, events, split>>
  /\ UNCHANGED <<agentVars, gatewayVars, chatVars>>

\* minimax.ts:286-327: the consumer leaves its loop at the event it was
\* handed last (the generator's return()); the generator, suspended at that
\* yield, runs its finally block and completes without a done event.
Return ==
  /\ gen = "read"
  /\ events # <<>>
  /\ Last(events).line = lineNo
  /\ gen' = "abandoned"
  /\ reader' = releaseLock(reader)
  /\ UNCHANGED <<net, pos, buffer, lines, toolCallsBuffer, lineNo, events, split>>
  /\ UNCHANGED <<agentVars, gatewayVars, chatVars>>

NextStream ==
  \/ Return
  \/ FetchThrows
  \/ RespondNotOk
  \/ RespondNoBody
  \/ OpenStream
  \/ Read
  \/ ProcessLine
  \/ ReadDone
  \/ ReadThrows

SpecStream == InitStream /\ [][NextStream]_vars

\* The generator of the agent-loop specification is never started.
NoStream ==
  /\ net = NetResult("throw", 0, <<>>)
  /\ FreshStream

\* part_007:81-138: the state after mount, with the welcome message
Init ==
  /\ yolo \in BOOLEAN
  /\ messages = <<WelcomeMessage>>
  /\ isLoading = FALSE
  /\ error = NoError
  /\ aiMessages = <<>>
  /\ iteration = 0
  /\ fullText = <<>>
  /\ hasToolCalls = FALSE
  /\ toolResults = <<>>
  /\ pc = "idle"
  /\ reply = NoReply
  /\ cursor = 1
  /\ turns = 0
  /\ varied = 0
  /\ streamCalls = 0
  /\ NoStream
  /\ NoGateway
  /\ NoChat

\* mutant: the input field submits whatever the loading state is
InputAcceptsAlways(loading) == TRUE

\* Message.tsx:799 with part_007:1047: Input.handleSubmit calls onSubmit
\* only while its isLoading prop is false (no menu is open in the model).
InputAccepts(loading) == ~loading

\* part_007:527-572, called by the input field, which is its only caller.
\* The history is built from the messages of the render that created the
\* callback, which do not yet hold the new user message.
Submit ==
  /\ InputAccepts(isLoading)
  /\ turns < MaxTurns
  /\ messages' = Append(messages, ChatMessage("user", UserText, <<>>, "", <<>>))
  /\ isLoading' = TRUE
  /\ error' = NoError
  /\ aiMessages' = BuildHistory(messages, UserText)
  /\ iteration' = 0
  /\ pc' = "loop"
  /\ turns' = turns + 1
  /\ streamCalls' = 0
  /\ UNCHANGED <<yolo, fullText, hasToolCalls, toolResults, reply, cursor, varied>>
  /\ UNCHANGED <<streamVars, gatewayVars, chatVars>>

\* mutant: the ceiling test lets one more iteration through
LoopGuardOffByOne(i) == i <= maxIterations

\* part_007:574
LoopGuard(i) == i < maxIterations

\* debug-all-tools.mjs:286, the definitions of the built-in tools (the one
\* that is modelled)
TOOL_DEFINITIONS ==
  << [name |-> <<"read", "_", "file">>, description |-> <<"Read a file">>] >>

\* mutant: the tool definitions are sent whatever the YOLO setting is
allToolsAlways(y, tools) == TOOL_DEFINITIONS \o tools

\* part_007:582-584; undefined, for no tools, is the empty list
allTools(y, tools) == IF y THEN TOOL_DEFINITIONS \o tools ELSE <<>>

\* part_007:574-593: a loop iteration starts and calls chatStream.  The
\* reply is free in the first MaxVaried model turns of a session, then the
\* model repeats itself.
CallModel ==
  /\ pc = "loop"
  /\ LoopGuard(iteration)
  /\ iteration' = iteration + 1
  /\ fullText' = <<>>
  /\ hasToolCalls' = FALSE
  /\ toolResults' = <<>>
  /\ IF varied < MaxVaried
       THEN reply' \in Replies /\ varied' = varied + 1
       ELSE reply' = reply /\ varied' = varied
  /\ cursor' = 1
  /\ streamCalls' = streamCalls + 1
  /\ pc' = "stream"
  /\ chatRequest' = [messages |-> aiMessages, tools |-> allTools(yolo, mcpTools)]
  /\ UNCHANGED <<yolo, messages, isLoading, error, aiMessages, turns>>
  /\ UNCHANGED <<streamVars, gatewayVars, chatBody, chatResponse, chatPc, chatResult>>

\* part_007:574, 745-747: the loop condition fails
LoopExit ==
  /\ pc = "loop"
  /\ ~LoopGuard(iteration)
  /\ pc' = "finally"
  /\ UNCHANGED <<yolo, messages, isLoading, error, aiMessages, iteration, fullText,
                 hasToolCalls, toolResults, reply, cursor, turns, varied, streamCalls>>
  /\ UNCHANGED <<streamVars, gatewayVars, chatVars>>

HasChunk == pc = "stream" /\ cursor <= Len(reply.chunks)

CurrentChunk == reply.chunks[cursor]

\* part_007:596-612
OnText ==
  /\ HasChunk
  /\ CurrentChunk.type = "text" /\ CurrentChunk.content # ""
  /\ fullText' = Append(fullText, CurrentChunk.content)
  /\ cursor' = cursor + 1
  /\ UNCHANGED <<yolo, messages, isLoading, error, aiMessages, iteration,
                 hasToolCalls, toolResults, pc, reply, turns, varied, streamCalls>>
  /\ UNCHANGED <<streamVars, gatewayVars, chatVars>>

\* mutant: the tool is started but not awaited, the loop goes on to the
\* next chunk
OnToolCallNotAwaited ==
  /\ HasChunk
  /\ CurrentChunk.type = "tool_call" /\ yolo
  /\ hasToolCalls' = TRUE
  /\ cursor' = cursor + 1
  /\ UNCHANGED <<yolo, messages, isLoading, error, aiMessages, iteration, fullText,
                 toolResults, pc, reply, turns, varied, streamCalls>>
  /\ UNCHANGED <<streamVars, gatewayVars, chatVars>>

\* part_007:613-646: the tool is dispatched inside the stream loop
OnToolCall ==
  /\ HasChunk
  /\ CurrentChunk.type = "tool_call" /\ yolo
  /\ hasToolCalls' = TRUE
  /\ pc' = "tool"
  /\ UNCHANGED <<yolo, messages, isLoading, error, aiMessages, iteration, fullText,
                 toolResults, reply, cursor, turns, varied, streamCalls>>
  /\ UNCHANGED <<streamVars, gatewayVars, chatVars>>

\* mutant: a failed built-in tool throws out of the stream loop
ToolReturnsThrowsOnFailure ==
  /\ pc = "tool"
  /\ LET call == ToolCall(CurrentChunk.id, CurrentChunk.name, CurrentChunk.arguments)
         output == ToolOutput(call)
     IN IF Head(output) = "Error: "
          THEN /\ error' = ErrorText("tool failed", 0, <<>>)
               /\ pc' = "finally"
               /\ UNCHANGED <<toolResults, messages, cursor>>
          ELSE /\ toolResults' = Append(toolResults, ToolResultEntry(call, output))
               /\ messages' = Append(messages,
                    ChatMessage("tool", <<"**[", call.name, "]**">> \o output, output,
                                call.id, <<>>))
               /\ cursor' = cursor + 1
               /\ pc' = "stream"
               /\ error' = error
  /\ UNCHANGED <<yolo, isLoading, aiMessages, iteration, fullText,
                 hasToolCalls, reply, turns, varied, streamCalls>>
  /\ UNCHANGED <<streamVars, gatewayVars, chatVars>>

\* part_007:648-666: the tool has returned
ToolReturns ==
  /\ pc = "tool"
  /\ LET call == ToolCall(CurrentChunk.id, CurrentChunk.name, CurrentChunk.arguments)
         output == ToolOutput(call)
     IN /\ toolResults' = Append(toolResults, ToolResultEntry(call, output))
        /\ messages' = Append(messages,
             ChatMessage("tool", <<"**[", call.name, "]**">> \o output, output,
                         call.id, <<>>))
  /\ cursor' = cursor + 1
  /\ pc' = "stream"
  /\ UNCHANGED <<yolo, isLoading, error, aiMessages, iteration, fullText,
                 hasToolCalls, reply, turns, varied, streamCalls>>
  /\ UNCHANGED <<streamVars, gatewayVars, chatVars>>

\* mutant: the error is recorded but the stream loop is not left
OnErrorNoBreak ==
  /\ HasChunk
  /\ CurrentChunk.type = "error" /\ CurrentChunk.error # NoError
  /\ error' = CurrentChunk.error
  /\ cursor' = cursor + 1
  /\ UNCHANGED <<yolo, messages, isLoading, aiMessages, iteration, fullText,
                 hasToolCalls, toolResults, pc, reply, turns, varied, streamCalls>>
  /\ UNCHANGED <<streamVars, gatewayVars, chatVars>>

\* part_007:667-670
OnError ==
  /\ HasChunk
  /\ CurrentChunk.type = "error" /\ CurrentChunk.error # NoError
  /\ error' = CurrentChunk.error
  /\ pc' = "post"
  /\ UNCHANGED <<yolo, messages, isLoading, aiMessages, iteration, fullText,
                 hasToolCalls, toolResults, reply, cursor, turns, varied, streamCalls>>
  /\ UNCHANGED <<streamVars, gatewayVars, chatVars>>

\* part_007:595-671: a chunk no branch takes (done, a tool_call with YOLO off)
OnOther ==
  /\ HasChunk
  /\ ~(CurrentChunk.type = "text" /\ CurrentChunk.content # "")
  /\ ~(CurrentChunk.type = "tool_call" /\ yolo)
  /\ ~(CurrentChunk.type = "error" /\ CurrentChunk.error # NoError)
  /\ cursor' = cursor + 1
  /\ UNCHANGED <<yolo, messages, isLoading, error, aiMessages, iteration, fullText,
                 hasToolCalls, toolResults, pc, reply, turns, varied, streamCalls>>
  /\ UNCHANGED <<streamVars, gatewayVars, chatVars>>

\* part_007:595, 671: the generator has returned
StreamEnds ==
  /\ pc = "stream"
  /\ cursor > Len(reply.chunks)
  /\ ~reply.throws
  /\ pc' = "post"
  /\ UNCHANGED <<yolo, messages, isLoading, error, aiMessages, iteration, fullText,
                 hasToolCalls, toolResults, reply, cursor, turns, varied, streamCalls>>
  /\ UNCHANGED <<streamVars, gatewayVars, chatVars>>

\* mutant: nothing catches the exception of the generator, handleSubmit
\* rejects and its finally block is not there
StreamThrowsUncaught ==
  /\ pc = "stream"
  /\ cursor > Len(reply.chunks)
  /\ reply.throws
  /\ pc' = "rejected"
  /\ UNCHANGED <<yolo, messages, isLoading, error, aiMessages, iteration, fullText,
                 hasToolCalls, toolResults, reply, cursor, turns, varied, streamCalls>>
  /\ UNCHANGED <<streamVars, gatewayVars, chatVars>>

\* part_007:595, 745-747: the generator throws; the catch block records it
StreamThrows ==
  /\ pc = "stream"
  /\ cursor > Len(reply.chunks)
  /\ reply.throws
  /\ error' = ErrorText("fetch failed", 0, <<>>)
  /\ pc' = "finally"
  /\ UNCHANGED <<yolo, messages, isLoading, aiMessages, iteration, fullText,
                 hasToolCalls, toolResults, reply, cursor, turns, varied, streamCalls>>
  /\ UNCHANGED <<streamVars, gatewayVars, chatVars>>

\* part_007:676-680
RECURSIVE ToolCallsForHistory(_)
ToolCallsForHistory(results) ==
  IF results = <<>> THEN <<>>
  ELSE <<ToolCall(Head(results).id, Head(results).name, Head(results).arguments)>>
         \o ToolCallsForHistory(Tail(results))

\* part_007:702-708
RECURSIVE ToolMessages(_)
ToolMessages(results) ==
  IF results = <<>> THEN <<>>
  ELSE <<AIMessage("tool", Head(results).output, Head(results).id, <<>>)>>
         \o ToolMessages(Tail(results))

\* mutant: the results are pushed before the assistant message that
\* requested them
ToolRoundHistoryResultsFirst(h, text, results) ==
  h \o ToolMessages(results)
    \o <<AIMessage("assistant", text, "", ToolCallsForHistory(results))>>

\* part_007:683-687, 702-708
ToolRoundHistory(h, text, results) ==
  h \o <<AIMessage("assistant", text, "", ToolCallsForHistory(results))>>
    \o ToolMessages(results)

\* part_007:674-715
ToolRound ==
  /\ pc = "post"
  /\ hasToolCalls /\ toolResults # <<>>
  /\ aiMessages' = ToolRoundHistory(aiMessages, fullText, toolResults)
  /\ messages' = Append(messages,
       ChatMessage("assistant",
                   IF fullText # <<>> THEN fullText ELSE <<"(calling tools...)">>,
                   fullText, "", ToolCallsForHistory(toolResults)))
  /\ pc' = "loop"
  /\ UNCHANGED <<yolo, isLoading, error, iteration, fullText, hasToolCalls,
                 toolResults, reply, cursor, turns, varied, streamCalls>>
  /\ UNCHANGED <<streamVars, gatewayVars, chatVars>>

\* part_007:717-747.  saveSession (utils/history.ts:51-55) writes a file:
\* it resolves or rejects, and the catch block records the rejection.
FinalResponse ==
  /\ pc = "post"
  /\ ~(hasToolCalls /\ toolResults # <<>>)
  /\ messages' =
       IF fullText # <<>> /\ filterThinking(fullText) # <<>>
         THEN Append(messages,
                ChatMessage("assistant", filterThinking(fullText),
                            filterThinking(fullText), "", <<>>))
         ELSE messages
  /\ \E saved \in BOOLEAN :
       error' = IF fullText # <<>> /\ ~saved
                  THEN ErrorText("ENOSPC", 0, <<>>) ELSE error
  /\ pc' = "finally"
  /\ UNCHANGED <<yolo, isLoading, aiMessages, iteration, fullText,
                 hasToolCalls, toolResults, reply, cursor, turns, varied, streamCalls>>
  /\ UNCHANGED <<streamVars, gatewayVars, chatVars>>

\* part_007:747-752
Finally ==
  /\ pc = "finally"
  /\ isLoading' = FALSE
  /\ pc' = "idle"
  /\ UNCHANGED <<yolo, messages, error, aiMessages, iteration, fullText,
                 hasToolCalls, toolResults, reply, cursor, turns, varied, streamCalls>>
  /\ UNCHANGED <<streamVars, gatewayVars, chatVars>>

Next ==
  \/ Submit
  \/ CallModel
  \/ LoopExit
  \/ OnText
  \/ OnToolCall
  \/ ToolReturns
  \/ OnError
  \/ OnOther
  \/ StreamEnds
  \/ StreamThrows
  \/ ToolRound
  \/ FinalResponse
  \/ Finally

Spec == Init /\ [][Next]_vars

\* Every step of a running turn is a continuation that the event loop runs
\* once the promise it awaits has settled; streams and tools are taken to
\* settle.  The user is free not to submit.
TurnStep ==
  \/ CallModel
  \/ LoopExit
  \/ OnText
  \/ OnToolCall
  \/ ToolReturns
  \/ OnError
  \/ OnOther
  \/ StreamEnds
  \/ StreamThrows
  \/ ToolRound
  \/ FinalResponse
  \/ Finally

SpecLive == Init /\ [][Next]_vars /\ WF_vars(TurnStep)

\* ------------------------------------------------- threading of a history
\* The message a tool message answers: the nearest message before it that
\* is not a tool message (0 when there is none).
Requester(h, i) ==
  LET before == {j \in 1..(i - 1) : h[j].role # "tool"}
  IN IF before = {} THEN 0
     ELSE CHOOSE j \in before : \A k \in before : k <= j

CallsWithId(m, id) == {k \in 1..Len(m.toolCalls) : m.toolCalls[k].id = id}

LastUser(h) ==
  LET us == {j \in 1..Len(h) : h[j].role = "user"}
  IN IF us = {} THEN 0 ELSE CHOOSE j \in us : \A k \in us : k <= j

\* C1: every tool message the loop appended in this turn (after the turn's
\* user message) answers a call of the assistant message right before its
\* round of tool messages.
C1_ToolAnswersPrecedingAssistant ==
  \A i \in 1..Len(aiMessages) :
    (aiMessages[i].role = "tool" /\ i > LastUser(aiMessages)) =>
      LET a == Requester(aiMessages, i)
      IN /\ a > 0
         /\ aiMessages[a].role = "assistant"
         /\ CallsWithId(aiMessages[a], aiMessages[i].toolCallId) # {}

C1_TwoResultsAppended ==
  /\ pc = "loop"
  /\ Len(aiMessages) >= 3
  /\ aiMessages[Len(aiMessages)].role = "tool"
  /\ aiMessages[Len(aiMessages) - 1].role = "tool"
  /\ aiMessages[Len(aiMessages)].toolCallId # aiMessages[Len(aiMessages) - 1].toolCallId

Threaded(h) ==
  \A i \in 1..Len(h) :
    h[i].role = "tool" =>
      LET a == Requester(h, i)
      IN /\ a > 0
         /\ h[a].role = "assistant"
         /\ Cardinality(CallsWithId(h[a], h[i].toolCallId)) = 1

\* C2: every history passed to chatStream is threaded: each tool message
\* follows, with only tool messages in between, an assistant message with
\* exactly one call of its toolCallId.
C2_RequestsAreThreaded ==
  pc = "stream" => Threaded(aiMessages)

\* C6: a user turn makes at most maxIterations chatStream calls, and after
\* the last one the loop can only end.
C6_AtMostTenModelTurns ==
  /\ streamCalls <= maxIterations
  /\ (pc = "loop" /\ streamCalls = maxIterations)
       => (ENABLED LoopExit /\ ~ENABLED CallModel)

C6_CeilingReached ==
  /\ pc = "idle"
  /\ streamCalls = maxIterations
  /\ hasToolCalls
  /\ ~isLoading

\* ------------------------------------------- properties of chatStream
\* The events of a body delivered as one chunk.
ParseWhole(body) ==
  Append(FoldLines([tcb |-> <<>>, out |-> <<>>, line |-> 0],
                   CompleteLines(<<>>, body)).out,
         DoneEvent)

\* C3: a body that was read to its end, in whatever chunks, yielded exactly
\* the events of the same body delivered as one chunk.
C3_ChunkBoundaryInvariant ==
  (gen = "returned" /\ net.outcome = "ok") => events = ParseWhole(net.body)

C3_SplitInsideDocument ==
  /\ gen = "returned"
  /\ net.outcome = "ok"
  /\ split
  /\ \E i \in 1..Len(events) : events[i].type = "tool_call"
  /\ \E i \in 1..Len(events) : events[i].type = "text"

\* The frames of a body, line by line: the JSON document of line i, or
\* NoFrame when line i carries none.
NoFrame == Chunk("", <<>>, "null")

FrameAt(body, i) ==
  LET ln == CompleteLines(<<>>, body)[i]
  IN IF ln # <<>> /\ Head(ln) = "data: " /\ IsJSONChunk(Tail(ln))
       THEN JSONParseChunk(Tail(ln)) ELSE NoFrame

RECURSIVE FragmentsOf(_, _)
FragmentsOf(tcs, slot) ==
  IF tcs = <<>> THEN <<>>
  ELSE (IF Head(tcs).index = slot THEN Head(tcs).arguments ELSE <<>>)
         \o FragmentsOf(Tail(tcs), slot)

\* The argument text that the frames of lines 1..n carried for a slot, in
\* arrival order.
RECURSIVE FragmentsUpTo(_, _, _)
FragmentsUpTo(body, n, slot) ==
  IF n = 0 THEN <<>>
  ELSE FragmentsUpTo(body, n - 1, slot)
         \o FragmentsOf(FrameAt(body, n).tool_calls, slot)

IsToolCall(e) == e.type = "tool_call"

IsTerminal(e) == e.type \in {"done", "error"}

\* C4: the arguments of every tool_call event are the JSON parse of all the
\* argument text that the frames carried for its slot, {} when they carried
\* none.
C4_ArgumentsAreAllFragments ==
  \A i \in 1..Len(events) :
    IsToolCall(events[i]) =>
      LET text == FragmentsUpTo(net.body, events[i].line, events[i].slot)
      IN /\ text = <<>> => events[i].arguments = <<>>
         /\ IsJSONObject(text) => events[i].arguments = JSONParseObject(text)

\* C5: the tool_call events of one finalisation come in ascending slot order.
C5_AscendingSlotOrder ==
  \A i, j \in 1..Len(events) :
    (i < j /\ IsToolCall(events[i]) /\ IsToolCall(events[j])
       /\ events[i].line = events[j].line)
      => events[i].slot < events[j].slot

\* C7: a tool_call event is yielded only by a frame with the tool_calls
\* finish reason, and over a whole stream no slot is yielded twice.
C7_EmittedOnceAtFinish ==
  /\ \A i \in 1..Len(events) :
       IsToolCall(events[i])
         => FrameAt(net.body, events[i].line).finish_reason = "tool_calls"
  /\ gen = "returned" =>
       \A i, j \in 1..Len(events) :
         (i < j /\ IsToolCall(events[i]) /\ IsToolCall(events[j]))
           => events[i].slot # events[j].slot

\* C8: no event follows a terminal event, and a sequence that has ended has
\* ended with exactly one done or error event.
C8_ExactlyOneTerminal ==
  /\ \A i \in 1..(Len(events) - 1) : ~IsTerminal(events[i])
  /\ gen \in {"returned", "thrown"} =>
       (events # <<>> /\ IsTerminal(Last(events)))

\* C9: a failure of fetch or of reader.read() ends the sequence with an
\* error event; nothing is thrown out of chatStream.
C9_FailureIsErrorEvent ==
  /\ gen # "thrown"
  /\ (gen = "returned" /\ net.outcome = "throw")
       => (events # <<>> /\ Last(events).type = "error")

\* C10: on a non-2xx status the sequence is the single error event that
\* carries the status and the body, and nothing of the body is parsed.
C10_NotOkIsOneError ==
  net.outcome = "not_ok" =>
    \/ gen = "fetch" /\ events = <<>>
    \/ /\ gen = "returned"
       /\ events = <<ErrorEvent(ErrorText("MiniMax API error", net.status, net.body))>>
       /\ toolCallsBuffer = <<>> /\ lineNo = 0 /\ pos = 0

C10_NotOkAnswered ==
  /\ net.outcome = "not_ok"
  /\ gen = "returned"
  /\ net.body = DataLine("txt") \o <<"\n">>

\* The complete lines of the whole body, and those processed so far.
AllLines == CompleteLines(<<>>, net.body)

ProcessedLines == SubSeq(AllLines, 1, lineNo)

Sentinel == <<"data: ", "[DONE]">>

SentinelBefore(n) == \E k \in 1..(n - 1) : AllLines[k] = Sentinel

\* C11: no text or tool_call event is yielded for a frame that follows the
\* termination sentinel in the body.
C11_NothingAfterSentinel ==
  \A i \in 1..Len(events) :
    events[i].type \in {"text", "tool_call"} => ~SentinelBefore(events[i].line)

\* A data frame whose payload is not a JSON document (the sentinel is not a
\* frame).
IsMalformed(ln) ==
  /\ ln # <<>>
  /\ Head(ln) = "data: "
  /\ ln # Sentinel
  /\ ~IsJSONChunk(Tail(ln))

WithoutMalformed(lns) == SelectSeq(lns, LAMBDA ln : ~IsMalformed(ln))

Unnumbered(evs) == [i \in 1..Len(evs) |-> [evs[i] EXCEPT !.line = 0]]

NonTerminal(evs) == SelectSeq(evs, LAMBDA e : ~IsTerminal(e))

\* C12: at every point of a stream the events yielded and the slot
\* accumulators are those of the lines processed so far with the malformed
\* frames removed (for lines without a malformed frame there is nothing to
\* remove).
C12_MalformedFramesDropped ==
  net.outcome = "ok" =>
    LET done == ProcessedLines
        kept == WithoutMalformed(done)
    IN kept # done =>
         LET st == FoldLines([tcb |-> <<>>, out |-> <<>>, line |-> 0], kept)
         IN /\ Unnumbered(NonTerminal(events)) = Unnumbered(st.out)
            /\ toolCallsBuffer = st.tcb
            /\ gen = "returned" => Last(events) = DoneEvent

C12_MalformedInsideCall ==
  /\ gen = "returned"
  /\ net.outcome = "ok"
  /\ \E i \in 1..Len(events) :
       /\ IsToolCall(events[i])
       /\ events[i].arguments = <<"p">>
       /\ \E k \in 2..(events[i].line - 1) : IsMalformed(AllLines[k])

\* The content fragment that a line carries ("" when it carries none).
ContentOfLine(ln) ==
  IF ln # <<>> /\ Head(ln) = "data: " /\ IsJSONChunk(Tail(ln))
    THEN JSONParseChunk(Tail(ln)).content ELSE ""

\* The content fragments of the frames of a sequence of lines, in order.
RECURSIVE ContentsOf(_)
ContentsOf(lns) ==
  IF lns = <<>> THEN <<>>
  ELSE (IF ContentOfLine(Head(lns)) # "" THEN <<ContentOfLine(Head(lns))>> ELSE <<>>)
         \o ContentsOf(Tail(lns))

RECURSIVE TextsOf(_)
TextsOf(evs) ==
  IF evs = <<>> THEN <<>>
  ELSE (IF Head(evs).type = "text" THEN <<Head(evs).content>> ELSE <<>>)
         \o TextsOf(Tail(evs))

RECURSIVE CallsOf(_)
CallsOf(chunks) ==
  IF chunks = <<>> THEN <<>>
  ELSE (IF IsToolCall(Head(chunks))
          THEN <<ToolCall(Head(chunks).id, Head(chunks).name, Head(chunks).arguments)>>
          ELSE <<>>)
         \o CallsOf(Tail(chunks))

\* C14: a tool that has been dispatched always gets its one result recorded
\* and the stream loop goes on with the next chunk, without an error; a
\* round with results always continues the loop, and below the ceiling the
\* next step of the loop is a chatStream call.
C14_ToolFailureDoesNotAbort ==
  [][ /\ (pc = "tool") =>
           /\ pc' = "stream"
           /\ cursor' = cursor + 1
           /\ toolResults' = Append(toolResults, toolResults'[Len(toolResults')])
           /\ toolResults'[Len(toolResults')].id = CurrentChunk.id
           /\ toolResults'[Len(toolResults')].output # <<>>
           /\ error' = error
      /\ (pc = "post" /\ toolResults # <<>>) =>
           /\ Len(toolResults) = Len(CallsOf(reply.chunks))
           /\ pc' = "loop"
           /\ error' = NoError
      /\ (pc = "loop" /\ iteration > 0 /\ iteration < maxIterations) =>
           (pc' = "stream" /\ streamCalls' = streamCalls + 1)
    ]_vars

C14_FailuresHandedBack ==
  /\ pc = "stream"
  /\ streamCalls >= 2
  /\ error = NoError
  /\ Len(aiMessages) >= 4
  /\ aiMessages[Len(aiMessages)].role = "tool"
  /\ aiMessages[Len(aiMessages)].content = <<"MCP tool error: ", "boom">>
  /\ aiMessages[Len(aiMessages) - 1].content = <<"MCP server not connected: ", "gone">>
  /\ aiMessages[Len(aiMessages) - 2].content = <<"Error: ", "Unknown tool: ", "nope">>

RECURSIVE ResultMessages(_)
ResultMessages(calls) ==
  IF calls = <<>> THEN <<>>
  ELSE <<AIMessage("tool", ToolOutput(Head(calls)), Head(calls).id, <<>>)>>
         \o ResultMessages(Tail(calls))

\* What a model turn that yielded these chunks adds to the request history.
ExpectedRound(chunks) ==
  <<AIMessage("assistant", TextsOf(chunks), "", CallsOf(chunks))>>
    \o ResultMessages(CallsOf(chunks))

\* C15: the step that ends a model turn with tool calls extends the request
\* history by one assistant message with the text and the calls of the turn
\* as the stream delivered them, followed by one tool message per call, in
\* order, with the call's id and its textual output.
C15_RoundExtendsHistory ==
  [][(pc = "post" /\ pc' = "loop")
        => aiMessages' = aiMessages \o ExpectedRound(reply.chunks)]_vars

C15_TextAndTwoCallsRecorded ==
  /\ pc = "loop"
  /\ fullText = <<"hi">>
  /\ Len(toolResults) = 2
  /\ Len(aiMessages) >= 3
  /\ aiMessages[Len(aiMessages) - 2].role = "assistant"
  /\ aiMessages[Len(aiMessages) - 2].content = <<"hi">>
  /\ Len(aiMessages[Len(aiMessages) - 2].toolCalls) = 2

\* The calls of the current model turn whose execution has started.
Started ==
  CallsOf(SubSeq(reply.chunks, 1, IF pc = "tool" THEN cursor ELSE cursor - 1))

\* C16: during a model turn every started tool call but the one in flight
\* has returned, at most one is in flight, and the results and the tool
\* messages are in the order in which the calls arrived.
C16_OneToolAtATime ==
  (yolo /\ pc \in {"stream", "tool", "post"}) =>
    /\ Len(Started) - Len(toolResults) = (IF pc = "tool" THEN 1 ELSE 0)
    /\ Len(messages) >= Len(toolResults)
    /\ \A i \in 1..Len(toolResults) :
         /\ toolResults[i].id = Started[i].id
         /\ messages[Len(messages) - Len(toolResults) + i].role = "tool"
         /\ messages[Len(messages) - Len(toolResults) + i].toolCallId = Started[i].id

C16_ThirdCallInFlight ==
  /\ pc = "tool"
  /\ Len(toolResults) = 2
  /\ Len(Started) = 3

\* The stream loop of the running turn was left by an error event.
ErrorDelivered ==
  /\ isLoading
  /\ pc \in {"post", "finally"}
  /\ cursor <= Len(reply.chunks)
  /\ reply.chunks[cursor].type = "error"

\* C17: the step that receives an error event records its message and leaves
\* the stream loop; from then on the turn makes no chatStream call, executes
\* no tool, appends no message and only ends.
C17_ErrorEventAborts ==
  [][ /\ (HasChunk /\ CurrentChunk.type = "error") =>
           (ErrorDelivered' /\ error' = CurrentChunk.error)
      /\ ErrorDelivered =>
           /\ messages' = messages
           /\ aiMessages' = aiMessages
           /\ toolResults' = toolResults
           /\ streamCalls' = streamCalls
           /\ error' = error
           /\ pc' \in {"finally", "idle"}
    ]_vars

C17_ErrorAfterToolRound ==
  /\ ErrorDelivered
  /\ pc = "finally"
  /\ streamCalls >= 2
  /\ error = StreamError.error

\* C18: a turn that leaves the loop at the ceiling, after a model turn that
\* still requested tools, has surfaced an error or a notice.
C18_CeilingIsExplained ==
  (/\ pc = "finally"
   /\ iteration = maxIterations
   /\ hasToolCalls /\ toolResults # <<>>
   /\ cursor > Len(reply.chunks) /\ ~reply.throws)
    => (error # NoError \/ Last(messages).role = "system")

\* C19: a turn that has been accepted ends: handleSubmit has returned (it
\* has not rejected), isLoading is false again and the next submission is
\* accepted.
C19_TurnEnds ==
  isLoading ~> (pc = "idle" /\ ~isLoading /\ (turns < MaxTurns => ENABLED Submit))

C19_EndedAfterException ==
  /\ pc = "idle"
  /\ ~isLoading
  /\ turns >= 1
  /\ error.msg = "fetch failed"

\* C20: a submission is accepted only while no turn runs and isLoading is
\* false, it sets isLoading, and isLoading stays true until the finally
\* block of the turn.
C20_OneTurnAtATime ==
  [][ /\ (turns' # turns) => (pc = "idle" /\ ~isLoading /\ isLoading')
      /\ (isLoading /\ ~isLoading') => (pc = "finally" /\ pc' = "idle")
      /\ (pc' # "idle") => isLoading'
    ]_vars

C20_SubmissionRefusedWhileLoading ==
  /\ isLoading
  /\ pc = "tool"
  /\ turns < MaxTurns
  /\ ~ENABLED Submit

\* ============================================================ MCPManager
\* src/src/mcp/client.ts.  A server or tool name is a sequence of tokens:
\* "_" is the underscore, "-" the hyphen, and every other token is a run of
\* letters and digits.  A text the manager returns is a sequence of tokens
\* too, a fixed piece of text being one token.

\* The servers a configuration can name.
ServerNames == { <<"my", "-", "db">>, <<"my", "-", "db", "_", "server">> }

\* utils/index.ts:81-91 and 127-135: the mcpServers object that
\* loadMCPConfig returns, as the sequence of its entries, each with the name
\* (the key; the keys of an object are distinct) and the optional enabled
\* flag of an MCPServerConfig.  The file is read by every initialize that
\* runs.
RECURSIVE ConfigsOfLen(_)
ConfigsOfLen(n) ==
  IF n = 0 THEN { <<>> }
  ELSE UNION { { Append(c, e) :
                   e \in { x \in [name : ServerNames,
                                   enabled : {"true", "false", "absent"}] :
                             \A i \in 1..Len(c) : c[i].name # x.name } } :
               c \in ConfigsOfLen(n - 1) }

Configs == UNION { ConfigsOfLen(n) : n \in 0..Cardinality(ServerNames) }

\* client.ts:23
IsEnabled(serverConfig) == serverConfig.enabled # "false"

\* What the subprocess of a server answers to listTools (client.ts:56): the
\* names of its tools.
ListedTools(name) ==
  IF name = <<"my", "-", "db">>
    THEN << <<"server", "_", "read">>, <<"resolve", ".", "id">> >>
    ELSE << <<"read">> >>

\* client.ts:58, the template `mcp_${name}_${tool.name}`
QualifiedName(name, tool) == <<"mcp", "_">> \o name \o <<"_">> \o tool

\* client.ts:57-61 (a listed tool carries no description of its own and
\* its input schema is passed on as it is)
ToolDefinitions(name, tools) ==
  [j \in 1..Len(tools) |->
     [name |-> QualifiedName(name, tools[j]),
      description |-> <<"[MCP:">> \o name \o <<"] ">> \o tools[j]]]

\* The live map (client.ts:14) is the sequence of its values.
ClientsHas(m, name) == \E i \in 1..Len(m) : m[i].name = name

ClientsGet(m, name) == m[CHOOSE i \in 1..Len(m) : m[i].name = name]

ClientsSet(m, v) ==
  IF ClientsHas(m, v.name)
    THEN [i \in 1..Len(m) |-> IF m[i].name = v.name THEN v ELSE m[i]]
    ELSE Append(m, v)

RECURSIVE ClientsDelete(_, _)
ClientsDelete(m, name) ==
  IF m = <<>> THEN <<>>
  ELSE IF Head(m).name = name THEN Tail(m)
  ELSE <<Head(m)>> \o ClientsDelete(Tail(m), name)

\* client.ts:131-133
RECURSIVE getConnectedServers(_)
getConnectedServers(m) ==
  IF m = <<>> THEN <<>> ELSE <<Head(m).name>> \o getConnectedServers(Tail(m))

\* mutant: only the tools of the first server are returned
getToolsOfFirst(m) == IF m = <<>> THEN <<>> ELSE Head(m).tools

\* client.ts:90-96
RECURSIVE getTools(_)
getTools(m) ==
  IF m = <<>> THEN <<>> ELSE Head(m).tools \o getTools(Tail(m))

\* ---------------------------------------------------------------- callTool
\* client.ts:100 and 105, toolName.match(/^mcp_([^_]+)_(.+)$/): the first
\* group is what lies between the prefix and the next underscore.
MatchToolName(toolName) ==
  LET us == { i \in 3..Len(toolName) : toolName[i] = "_" }
      u == IF us = {} THEN 0 ELSE CHOOSE i \in us : \A j \in us : i <= j
  IN
    IF /\ Len(toolName) >= 2
       /\ toolName[1] = "mcp"
       /\ toolName[2] = "_"
       /\ u > 3
       /\ u < Len(toolName)
      THEN [matched |-> TRUE,
            serverName |-> SubSeq(toolName, 3, u - 1),
            actualToolName |-> SubSeq(toolName, u + 1, Len(toolName))]
      ELSE [matched |-> FALSE, serverName |-> <<>>, actualToolName |-> <<>>]

\* One part of a result's content; text is empty when the part has none.
Part(type, text) == [type |-> type, text |-> text]

\* What client.callTool() settles to: a result, whose content is a list of
\* parts when hasContent holds, or a rejection with a message.
Answer(outcome, hasContent, content, message) ==
  [outcome |-> outcome, hasContent |-> hasContent, content |-> content,
   message |-> message]

Rejections == {"crash", "timeout", "malformed response"}

Answers ==
  { Answer("result", TRUE, <<Part("text", <<"out">>)>>, ""),
    Answer("result", TRUE, <<Part("text", <<"a">>), Part("image", <<>>)>>, ""),
    Answer("result", FALSE, <<>>, "") } \cup
  { Answer("reject", FALSE, <<>>, m) : m \in Rejections }

ConnectionClosed == Answer("reject", FALSE, <<>>, "Connection closed")

\* client.ts:120-122, map((c) => c.text || JSON.stringify(c)).join("\n")
RECURSIVE JoinParts(_)
JoinParts(content) ==
  LET c == Head(content)
      text == IF c.text # <<>> THEN c.text ELSE <<"{", c.type, "}">>
  IN IF content = <<>> THEN <<>>
     ELSE IF Len(content) = 1 THEN text
     ELSE text \o <<"\n">> \o JoinParts(Tail(content))

\* The names callTool is called with: the qualified names of the tools of
\* all servers, the qualified name of resolve.id as the endpoint was given it
\* (minimax.ts:106), and names that are not qualified names.
ToolNames ==
  UNION { { QualifiedName(n, ListedTools(n)[i]) : i \in 1..Len(ListedTools(n)) } :
          n \in ServerNames } \cup
  { <<"mcp", "_", "my", "-", "db", "_", "resolve", "_", "id">>,
    <<"read", "_", "file">>, <<"mcp", "_", "my", "-", "db">>,
    <<"mcp", "_", "_", "read">> }

\* -------------------------------------------------------------- the manager
InitGateway ==
  /\ mcpServers = <<>>
  /\ clients = <<>>
  /\ initialized = FALSE
  /\ spawned = 0
  /\ closed = {}
  /\ op = NoOperation
  /\ ops = 0
  /\ mcpCall = NoInvocation
  /\ mcpTools = <<>>
  /\ NoSession
  /\ NoStream
  /\ NoChat

\* The manager's operations are called one after another.
CanStart == op.pc \in {"idle", "done"} /\ ops < MaxOps

Returned(o, value) ==
  [o EXCEPT !.pc = "done", !.result = Settled("returned", value)]

Threw(o, message) ==
  [o EXCEPT !.pc = "done", !.result = Settled("threw", message)]

\* mutant: initialize ignores the flag
AlreadyInitializedNever(flag) == FALSE

\* client.ts:18
AlreadyInitialized(flag) == flag

\* client.ts:17-20.  Every caller of initialize() stores getTools() in
\* the React state once it has returned (part_007:111-113, 397-400,
\* 961-964).
InitializeStart ==
  /\ CanStart
  /\ ops' = ops + 1
  /\ IF AlreadyInitialized(initialized)
       THEN /\ op' = Returned(Operation("initialize", "done", 0, <<>>, 0,
                                        clients, Pending), "undefined")
            /\ mcpServers' = <<>>
            /\ mcpTools' = getTools(clients)
       ELSE /\ op' = Operation("initialize", "loop", 1, <<>>, 0, clients,
                               Pending)
            /\ mcpServers' \in Configs
            /\ UNCHANGED mcpTools
  /\ UNCHANGED <<clients, initialized, spawned, closed, mcpCall>>
  /\ UNCHANGED <<streamVars, agentVars, chatVars>>

\* client.ts:36-53: connectServer up to its first await; the subprocess is
\* spawned unless the name has a live handle.
Spawn(o, name) ==
  [o EXCEPT !.pc = "handshake", !.name = name, !.handle = spawned + 1,
            !.attempts = Append(@, name)]

\* What follows a connectServer that returned: the next entry of the loop
\* of initialize (client.ts:22), or the caller of connectServer.
ConnectReturns(o) ==
  IF o.kind = "initialize" THEN [o EXCEPT !.pc = "loop", !.i = @ + 1]
  ELSE Returned(o, "undefined")

\* mutant: initialize does not catch the error of a server
ConnectThrowsUncaught(o) ==
  Threw([o EXCEPT !.failed = Append(@, o.name)], "connect failed")

\* client.ts:65-68 rethrows; client.ts:26-28 catches inside the loop of
\* initialize, whose next entry follows.
ConnectThrows(o) ==
  IF o.kind = "initialize"
    THEN [o EXCEPT !.pc = "loop", !.i = @ + 1, !.failed = Append(@, o.name)]
    ELSE Threw([o EXCEPT !.failed = Append(@, o.name)], "connect failed")

\* client.ts:22-32, one round of the loop of initialize
InitializeNext ==
  /\ op.kind = "initialize"
  /\ op.pc = "loop"
  /\ IF op.i > Len(mcpServers)
       THEN /\ initialized' = TRUE
            /\ op' = Returned(op, "undefined")
            /\ mcpTools' = getTools(clients)
            /\ UNCHANGED spawned
       ELSE /\ UNCHANGED <<initialized, mcpTools>>
            /\ IF ~IsEnabled(mcpServers[op.i])
                 THEN op' = [op EXCEPT !.i = @ + 1] /\ UNCHANGED spawned
                 ELSE IF ClientsHas(clients, mcpServers[op.i].name)
                   THEN op' = ConnectReturns(op) /\ UNCHANGED spawned
                   ELSE /\ op' = Spawn(op, mcpServers[op.i].name)
                        /\ spawned' = spawned + 1
  /\ UNCHANGED <<mcpServers, clients, closed, ops, mcpCall>>
  /\ UNCHANGED <<streamVars, agentVars, chatVars>>

\* client.ts:35-53, connectServer called on its own
ConnectStart ==
  /\ CanStart
  /\ ops' = ops + 1
  /\ \E name \in ServerNames :
       LET o == Operation("connectServer", "start", 0, name, 0, clients,
                          Pending) IN
         IF ClientsHas(clients, name)
           THEN op' = ConnectReturns(o) /\ UNCHANGED spawned
           ELSE op' = Spawn(o, name) /\ spawned' = spawned + 1
  /\ mcpServers' = <<>>
  /\ UNCHANGED <<clients, initialized, closed, mcpCall, mcpTools>>
  /\ UNCHANGED <<streamVars, agentVars, chatVars>>

\* client.ts:53, await client.connect(transport).  A connect that rejects
\* leaves no subprocess behind: either the spawn itself failed, or the
\* client closes its transport when its handshake is refused.
Handshake ==
  /\ op.pc = "handshake"
  /\ \E ok \in BOOLEAN :
       /\ op' = IF ok THEN [op EXCEPT !.pc = "listTools"] ELSE ConnectThrows(op)
       /\ closed' = IF ok THEN closed ELSE closed \cup {op.handle}
  /\ UNCHANGED <<mcpServers, clients, initialized, spawned, ops, mcpCall, mcpTools>>
  /\ UNCHANGED <<streamVars, agentVars, chatVars>>

\* mutant: the handle is stored before the tools are listed
StoreOnListedEarly(m, v, ok) == ClientsSet(m, v)

\* client.ts:56-63: the entry (client.ts:6-11; the handle stands for the
\* client and its transport, that is for one subprocess) is stored once
\* listTools has answered
StoreOnListed(m, v, ok) == IF ok THEN ClientsSet(m, v) ELSE m

\* client.ts:56-68
ListTools ==
  /\ op.pc = "listTools"
  /\ \E ok \in BOOLEAN :
       /\ clients' = StoreOnListed(clients,
                       [name |-> op.name, client |-> op.handle,
                        tools |-> ToolDefinitions(op.name, ListedTools(op.name))],
                       ok)
       /\ op' = IF ok THEN ConnectReturns(op) ELSE ConnectThrows(op)
  /\ UNCHANGED <<mcpServers, initialized, spawned, closed, ops, mcpCall, mcpTools>>
  /\ UNCHANGED <<streamVars, agentVars, chatVars>>

\* client.ts:71-75 and 80: disconnectServer up to its await
DisconnectStart ==
  /\ CanStart
  /\ ops' = ops + 1
  /\ \E name \in ServerNames :
       LET o == Operation("disconnectServer", "start", 0, name, 0, clients,
                          Pending) IN
         IF ClientsHas(clients, name)
           THEN /\ closed' = closed \cup {ClientsGet(clients, name).client}
                /\ op' = [o EXCEPT !.pc = "closing",
                                   !.handle = ClientsGet(clients, name).client]
           ELSE /\ op' = Returned(o, "false")
                /\ UNCHANGED closed
  /\ mcpServers' = <<>>
  /\ UNCHANGED <<clients, initialized, spawned, mcpCall, mcpTools>>
  /\ UNCHANGED <<streamVars, agentVars, chatVars>>

\* mutant: a failing close leaves the entry in the map
AfterCloseKeepsOnFailure(m, name, closeOk) ==
  IF closeOk THEN ClientsDelete(m, name) ELSE m

\* client.ts:74-77: the error of close() is swallowed and the entry deleted
AfterClose(m, name, closeOk) == ClientsDelete(m, name)

\* client.ts:74-78, and 84-86 when disconnectAll is the caller
Closes ==
  /\ op.pc = "closing"
  /\ \E closeOk \in BOOLEAN :
       /\ clients' = AfterClose(clients, op.name, closeOk)
       /\ op' = LET o == [op EXCEPT !.closeFailed = @ \/ ~closeOk] IN
                  IF op.kind = "disconnectAll" THEN [o EXCEPT !.pc = "loop"]
                  ELSE Returned(o, "true")
  /\ UNCHANGED <<mcpServers, initialized, spawned, closed, ops, mcpCall, mcpTools>>
  /\ UNCHANGED <<streamVars, agentVars, chatVars>>

\* client.ts:83
DisconnectAllStart ==
  /\ CanStart
  /\ ops' = ops + 1
  /\ op' = Operation("disconnectAll", "loop", 0, <<>>, 0, clients, Pending)
  /\ mcpServers' = <<>>
  /\ UNCHANGED <<clients, initialized, spawned, closed, mcpCall, mcpTools>>
  /\ UNCHANGED <<streamVars, agentVars, chatVars>>

\* client.ts:84-88: the iterator of the map yields the first entry that is
\* left, since each round deletes the entry it was given.
DisconnectAllNext ==
  /\ op.kind = "disconnectAll"
  /\ op.pc = "loop"
  /\ IF clients = <<>>
       THEN /\ initialized' = FALSE
            /\ op' = Returned(op, "undefined")
            /\ UNCHANGED closed
       ELSE /\ closed' = closed \cup {clients[1].client}
            /\ op' = [op EXCEPT !.pc = "closing", !.name = clients[1].name,
                                !.handle = clients[1].client]
            /\ UNCHANGED initialized
  /\ UNCHANGED <<mcpServers, clients, spawned, ops, mcpCall, mcpTools>>
  /\ UNCHANGED <<streamVars, agentVars, chatVars>>

\* client.ts:98-116: callTool up to its await
CallToolStart ==
  /\ mcpCall.pc \in {"idle", "done"}
  /\ \E toolName \in ToolNames :
       LET match == MatchToolName(toolName) IN
         mcpCall' =
           IF ~match.matched
             THEN Invocation("done", toolName, 0, <<>>,
                             Settled("returned",
                               <<"Invalid MCP tool name: ">> \o toolName))
           ELSE IF ~ClientsHas(clients, match.serverName)
             THEN Invocation("done", toolName, 0, <<>>,
                             Settled("returned",
                               <<"MCP server not connected: ">> \o
                               match.serverName))
           ELSE Invocation("awaiting", toolName,
                           ClientsGet(clients, match.serverName).client,
                           match.actualToolName, Pending)
  /\ UNCHANGED <<mcpServers, clients, initialized, spawned, closed, op, ops, mcpTools>>
  /\ UNCHANGED <<streamVars, agentVars, chatVars>>

\* mutant: a rejection of the subprocess call is not caught
CallToolSettlementUncaught(a) ==
  IF a.outcome = "reject" THEN Settled("threw", <<a.message>>)
  ELSE IF a.hasContent THEN Settled("returned", JoinParts(a.content))
  ELSE Settled("returned", <<"{", "result", "}">>)

\* client.ts:112-128: the settlement of callTool for an answer of the
\* subprocess
CallToolSettlement(a) ==
  IF a.outcome = "reject"
    THEN Settled("returned", <<"MCP tool error: ", a.message>>)
  ELSE IF a.hasContent THEN Settled("returned", JoinParts(a.content))
  ELSE Settled("returned", <<"{", "result", "}">>)

\* client.ts:113-128: the subprocess answers, or the call is rejected
\* because the handle has been closed.
CallToolSettles ==
  /\ mcpCall.pc = "awaiting"
  /\ \E a \in Answers \cup {ConnectionClosed} :
       /\ (a = ConnectionClosed) <=> (mcpCall.handle \in closed)
       /\ mcpCall' = [mcpCall EXCEPT !.pc = "done",
                                     !.answer = IF a.outcome = "reject"
                                                  THEN a.message ELSE "result",
                                     !.result = CallToolSettlement(a)]
  /\ UNCHANGED <<mcpServers, clients, initialized, spawned, closed, op, ops, mcpTools>>
  /\ UNCHANGED <<streamVars, agentVars, chatVars>>

NextGateway ==
  \/ InitializeStart
  \/ InitializeNext
  \/ ConnectStart
  \/ Handshake
  \/ ListTools
  \/ DisconnectStart
  \/ Closes
  \/ DisconnectAllStart
  \/ DisconnectAllNext
  \/ CallToolStart
  \/ CallToolSettles

SpecGateway == InitGateway /\ [][NextGateway]_vars

\* ------------------------------------------------- C21: callTool is total
IsText(v) == \A i \in 1..Len(v) : v[i] \in STRING

\* C21: whatever the manager is doing meanwhile, callTool settles by
\* returning a text: the invalid-name text for a name that does not match
\* the pattern, the not-connected text for a server without live handle, and
\* the tool-error text when the subprocess call is rejected (crash, timeout,
\* malformed response, handle closed during the call).
C21_CallToolReturnsText ==
  /\ mcpCall.result.kind # "threw"
  /\ mcpCall.pc = "done" =>
       LET match == MatchToolName(mcpCall.toolName)
           r == mcpCall.result
       IN /\ r.kind = "returned"
          /\ IsText(r.value)
          /\ ~match.matched =>
               r.value = <<"Invalid MCP tool name: ">> \o mcpCall.toolName
          /\ (match.matched /\ mcpCall.handle = 0) =>
               r.value = <<"MCP server not connected: ">> \o match.serverName
          /\ mcpCall.answer \in Rejections \cup {"Connection closed"} =>
               r.value = <<"MCP tool error: ", mcpCall.answer>>

\* A call settled because its handle was closed by a disconnect that is
\* still in flight.
C21_ClosedDuringCall ==
  /\ mcpCall.pc = "done"
  /\ mcpCall.answer = "Connection closed"
  /\ op.pc = "closing"
  /\ op.handle = mcpCall.handle

\* ------------------------------------ C22: initialize isolates the failures
\* The names of config, in order, that are enabled, whose connectServer did
\* not throw and that are not among the names of had.
RECURSIVE NewlyConnected(_, _, _)
NewlyConnected(config, failed, had) ==
  IF config = <<>> THEN <<>>
  ELSE IF /\ Head(config).enabled # "false"
          /\ \A i \in 1..Len(failed) : failed[i] # Head(config).name
          /\ \A i \in 1..Len(had) : had[i] # Head(config).name
    THEN <<Head(config).name>> \o NewlyConnected(Tail(config), failed, had)
    ELSE NewlyConnected(Tail(config), failed, had)

\* C22: whatever the configuration and whichever connects fail, initialize
\* returns without throwing, and the connected servers are then the ones
\* that were connected before followed by the enabled servers whose connect
\* did not fail: from an empty live map, exactly the enabled servers whose
\* connect succeeded.
C22_InitializeIsolatesFailures ==
  (op.kind = "initialize" /\ op.pc = "done") =>
    /\ op.result = Settled("returned", "undefined")
    /\ getConnectedServers(clients) =
         getConnectedServers(op.before) \o
         NewlyConnected(mcpServers, op.failed, getConnectedServers(op.before))
    /\ op.before = <<>> =>
         \A n \in ServerNames :
           ClientsHas(clients, n) <=>
             /\ \E i \in 1..Len(mcpServers) :
                  mcpServers[i].name = n /\ mcpServers[i].enabled # "false"
             /\ \A i \in 1..Len(op.failed) : op.failed[i] # n

\* initialize has returned; the first of two enabled servers failed to
\* connect and the second one is connected.
C22_SecondConnectsAfterFailure ==
  /\ op.kind = "initialize"
  /\ op.pc = "done"
  /\ Len(mcpServers) = 2
  /\ op.failed = <<mcpServers[1].name>>
  /\ getConnectedServers(clients) = <<mcpServers[2].name>>

\* --------------------------------------- C23: qualified names route back
\* C23: a call that starts on a name published by getTools(), that is on
\* the qualified name of a tool of a connected server, is forwarded to the
\* subprocess of that server with the tool's original name.
C23_QualifiedNamesRoute ==
  [][ (mcpCall.pc \in {"idle", "done"} /\ mcpCall' # mcpCall) =>
        \A i \in 1..Len(clients) :
          \A j \in 1..Len(clients[i].tools) :
            mcpCall'.toolName = clients[i].tools[j].name =>
              /\ mcpCall'.pc = "awaiting"
              /\ mcpCall'.handle = clients[i].client
              /\ mcpCall'.sent = ListedTools(clients[i].name)[j] ]_vars


\* -------------------------------------------- C24: initialize is idempotent
\* C24: an initialize that starts after an initialize has returned, with no
\* disconnectAll called in between, returns at once: it spawns nothing and
\* the live map is as it was.  And an initialize or a connectServer leaves
\* every entry that was live when it started where it was, with its handle,
\* and spawns no subprocess for its name.
C24_InitializeIsIdempotent ==
  /\ (op.kind = "initialize" /\ op.again) =>
       /\ op.pc = "done"
       /\ op.result = Settled("returned", "undefined")
       /\ op.attempts = <<>>
       /\ clients = op.before
  /\ op.kind \in {"initialize", "connectServer"} =>
       \A i \in 1..Len(op.before) :
         /\ i <= Len(clients)
         /\ clients[i] = op.before[i]
         /\ \A j \in 1..Len(op.attempts) : op.attempts[j] # op.before[i].name

\* A second initialize has returned although a server of the configuration
\* is not connected (its connect failed the first time, or it was
\* disconnected since).
C24_SecondInitializeSkips ==
  /\ op.kind = "initialize"
  /\ op.again
  /\ op.pc = "done"
  /\ initialized
  /\ Len(clients) = 1


\* ------------------------------------------------ C25: disconnect's effect
RECURSIVE EnabledNames(_)
EnabledNames(config) ==
  IF config = <<>> THEN <<>>
  ELSE IF Head(config).enabled # "false"
    THEN <<Head(config).name>> \o EnabledNames(Tail(config))
    ELSE EnabledNames(Tail(config))

\* The entries of m whose name is not name.
RECURSIVE Without(_, _)
Without(m, name) ==
  IF m = <<>> THEN <<>>
  ELSE IF Head(m).name = name THEN Without(Tail(m), name)
  ELSE <<Head(m)>> \o Without(Tail(m), name)

\* C25: disconnectServer on a name without live handle returns false, closes
\* nothing and leaves the live map as it was; on a live name it calls close
\* on that handle and returns true with exactly that entry removed, whether
\* close throws or not.  disconnectAll returns with every handle closed and
\* the live map empty, and the initialize called next spawns a subprocess
\* for every enabled server of the configuration.
C25_DisconnectEffect ==
  /\ (op.kind = "disconnectServer" /\ ~ClientsHas(op.before, op.name)) =>
       /\ op.pc = "done"
       /\ op.result = Settled("returned", "false")
       /\ op.handle = 0
       /\ clients = op.before
  /\ (op.kind = "disconnectServer" /\ ClientsHas(op.before, op.name)) =>
       /\ op.handle = ClientsGet(op.before, op.name).client
       /\ op.handle \in closed
       /\ op.pc = "done" =>
            /\ op.result = Settled("returned", "true")
            /\ clients = Without(op.before, op.name)
  /\ (op.kind = "disconnectAll" /\ op.pc = "done") =>
       /\ op.result = Settled("returned", "undefined")
       /\ clients = <<>>
       /\ \A i \in 1..Len(op.before) : op.before[i].client \in closed
  /\ (op.kind = "initialize" /\ op.after = "disconnectAll" /\ op.pc = "done") =>
       op.attempts = EnabledNames(mcpServers)

\* A disconnectServer whose close() threw has returned true, with another
\* server still connected.
C25_TrueThoughCloseFailed ==
  /\ op.kind = "disconnectServer"
  /\ op.pc = "done"
  /\ op.closeFailed
  /\ op.result.value = "true"
  /\ Len(clients) = 1


\* --------------------------------------- C26: the observers show the live map
\* The tools of the servers in names, as connectServer publishes them.
RECURSIVE PublishedBy(_)
PublishedBy(names) ==
  IF names = <<>> THEN <<>>
  ELSE [j \in 1..Len(ListedTools(Head(names))) |->
          [name |-> <<"mcp", "_">> \o Head(names) \o <<"_">> \o
                    ListedTools(Head(names))[j],
           description |-> <<"[MCP:">> \o Head(names) \o <<"] ">> \o
                           ListedTools(Head(names))[j]]]
       \o PublishedBy(Tail(names))

HasPrefix(s, p) == Len(s) >= Len(p) /\ SubSeq(s, 1, Len(p)) = p

\* C26: getConnectedServers() lists each name of the live map once and no
\* other name, and once the manager's operations have returned every such
\* name has a handle that was spawned and has not been closed; getTools()
\* is the concatenation of the tool lists of these servers in the same
\* order, so every tool name it returns starts with mcp_<s>_ for a
\* connected s and the tools of a server that is not connected are absent.
C26_ObserversShowLiveMap ==
  LET names == getConnectedServers(clients)
      tools == getTools(clients)
  IN /\ Len(names) = Len(clients)
     /\ \A i \in 1..Len(names) :
          /\ names[i] = clients[i].name
          /\ \A j \in 1..Len(names) : names[i] = names[j] => i = j
          /\ clients[i].client \in 1..spawned
          /\ op.pc \in {"idle", "done"} => clients[i].client \notin closed
     /\ tools = PublishedBy(names)
     /\ \A k \in 1..Len(tools) :
          \E i \in 1..Len(names) :
            HasPrefix(tools[k].name, <<"mcp", "_">> \o names[i] \o <<"_">>)
     /\ \A n \in ServerNames :
          (\A i \in 1..Len(names) : names[i] # n) =>
            \A k \in 1..Len(tools) :
              ~HasPrefix(tools[k].description, <<"[MCP:">> \o n \o <<"] ">>)

\* After a disconnect one server with two tools is connected and the other
\* server is not.
C26_OneServerLeft ==
  /\ op.kind = "disconnectServer"
  /\ op.pc = "done"
  /\ Len(op.before) = 2
  /\ Len(getConnectedServers(clients)) = 1
  /\ Len(getTools(clients)) = 2


\* ------------------------------------- C27: a handle is stored on success
\* C27: while connectServer awaits the handshake or the tool listing, the
\* live map holds no entry for its name and does not hold its handle.  A
\* connectServer whose handshake or tool listing failed throws to its
\* caller with the live map as it was before the call; one that spawned a
\* subprocess and returned has added its handle under its name behind the
\* entries that were there.  The servers whose connectServer threw inside
\* initialize have no entry.
C27_StoredOnlyOnSuccess ==
  /\ op.pc \in {"handshake", "listTools"} =>
       /\ ~ClientsHas(clients, op.name)
       /\ \A i \in 1..Len(clients) : clients[i].client # op.handle
  /\ (op.kind = "connectServer" /\ op.pc = "done" /\ op.failed # <<>>) =>
       /\ op.result.kind = "threw"
       /\ clients = op.before
       /\ ~ClientsHas(clients, op.name)
  /\ (op.kind = "connectServer" /\ op.pc = "done" /\ op.failed = <<>>) =>
       /\ op.result.kind = "returned"
       /\ op.attempts # <<>> =>
            /\ Len(clients) = Len(op.before) + 1
            /\ Front(clients) = op.before
            /\ Last(clients).name = op.name
            /\ Last(clients).client = op.handle
  /\ op.kind \in {"initialize", "connectServer"} =>
       \A j \in 1..Len(op.failed) : ~ClientsHas(clients, op.failed[j])

\* A connectServer has thrown while another server is connected.
C27_FailedBesideLiveServer ==
  /\ op.kind = "connectServer"
  /\ op.pc = "done"
  /\ op.result.kind = "threw"
  /\ Len(clients) = 1


\* ====================================================== MiniMaxProvider.chat
\* src/src/ai/minimax.ts:97-227, the single-shot request.

\* A JSON value of a tool's parameters: kind is "absent" for a missing
\* property, else "null", "string", "object" (items are its keys) or
\* "array" (items are its elements).
JSONValue(kind, items) == [kind |-> kind, items |-> items]

Absent == JSONValue("absent", <<>>)

\* A parameters object by the properties that sanitizeParameters reads.
Parameters(type, properties, required, additionalProperties) ==
  [kind |-> "object", type |-> type, properties |-> properties,
   required |-> required, additionalProperties |-> additionalProperties]

\* A parameters value that is not an object (undefined, null, a string).
NotParameters(kind) ==
  [kind |-> kind, type |-> Absent, properties |-> Absent, required |-> Absent,
   additionalProperties |-> Absent]

ParameterInputs ==
  { NotParameters("absent"), NotParameters("null"), NotParameters("string"),
    Parameters(Absent, Absent, Absent, Absent),
    Parameters(JSONValue("string", <<"object">>), JSONValue("object", <<"path">>),
               JSONValue("array", <<"path">>), JSONValue("false", <<>>)),
    Parameters(JSONValue("string", <<"object">>), JSONValue("null", <<>>),
               JSONValue("string", <<"path">>), Absent),
    Parameters(Absent, JSONValue("object", <<"path">>), Absent, Absent),
    Parameters(Absent, Absent, JSONValue("array", <<>>), Absent) }

\* minimax.ts:113-143
sanitizeParameters(params) ==
  IF params.kind # "object"
    THEN Parameters(JSONValue("string", <<"object">>), JSONValue("object", <<>>),
                    JSONValue("array", <<>>), Absent)
    ELSE Parameters(
           IF params.type.kind = "string" THEN params.type
           ELSE JSONValue("string", <<"object">>),
           IF params.properties.kind \in {"object", "array"}
             THEN params.properties ELSE JSONValue("object", <<>>),
           IF params.required.kind = "array"
             THEN params.required ELSE JSONValue("array", <<>>),
           params.additionalProperties)

\* A tool name is a sequence of characters, a letter standing for a run of
\* letters and digits; the dot, the blank and the slash are the modelled
\* characters outside [a-zA-Z0-9_-].
\* mutant: the name is sent as it is
SanitizeNameIdentity(name) == name

\* minimax.ts:106, name.replace(/[^a-zA-Z0-9_-]/g, "_")
SanitizeName(name) ==
  [i \in 1..Len(name) |-> IF name[i] \in {".", " ", "/"} THEN "_" ELSE name[i]]

\* minimax.ts:107, slice(0, 1000); a description is modelled by its length
SliceDescription(len) == IF len <= DescriptionLimit THEN len ELSE DescriptionLimit

\* types.ts ToolDefinition, as convertTools receives it
ToolInputs ==
  [name : { <<>>, <<"a", "b">>, <<"a", ".", "b", " ", "/">>,
            <<"mcp", "_", "x", "-", "y">> },
   description : {0, DescriptionLimit, DescriptionLimit + 1},
   parameters : ParameterInputs]

\* minimax.ts:97-111 (undefined, for no tools, is the empty list)
RECURSIVE convertTools(_)
convertTools(tools) ==
  IF tools = <<>> THEN <<>>
  ELSE IF Head(tools).name # <<>> /\ Head(tools).description # 0
    THEN << [type |-> "function",
             function |->
               [name |-> SanitizeName(Head(tools).name),
                description |-> SliceDescription(Head(tools).description),
                parameters |-> sanitizeParameters(Head(tools).parameters)]] >>
         \o convertTools(Tail(tools))
    ELSE convertTools(Tail(tools))

\* The content of a wire message: a string, or null.
JSONString(text) == [null |-> FALSE, text |-> text]

\* JSON.stringify of an arguments object (minimax.ts:160), the inverse of
\* JSONParseObject
JSONStringify(args) == <<"{">> \o args \o <<"}">>

\* minimax.ts:155-162
RECURSIVE WireToolCalls(_)
WireToolCalls(calls) ==
  IF calls = <<>> THEN <<>>
  ELSE << [id |-> Head(calls).id, type |-> "function",
           function |-> [name |-> Head(calls).name,
                         arguments |-> JSONStringify(Head(calls).arguments)]] >>
       \o WireToolCalls(Tail(calls))

\* mutant: the empty content of an assistant message with tool calls stays
WireContentKeepsEmpty(m) == JSONString(m.content)

\* minimax.ts:149 and 164-166
WireContent(m) ==
  IF m.role = "assistant" /\ m.toolCalls # <<>> /\ m.content = <<>>
    THEN [null |-> TRUE, text |-> <<>>] ELSE JSONString(m.content)

\* minimax.ts:147-173 (an absent tool_calls is <<>>, an absent tool_call_id "")
WireMessage(m) ==
  [role |-> m.role,
   content |-> WireContent(m),
   tool_calls |-> IF m.role = "assistant" THEN WireToolCalls(m.toolCalls)
                  ELSE <<>>,
   tool_call_id |-> IF m.role = "tool" THEN m.toolCallId ELSE ""]

\* minimax.ts:145-175
RECURSIVE convertMessages(_)
convertMessages(msgs) ==
  IF msgs = <<>> THEN <<>>
  ELSE <<WireMessage(Head(msgs))>> \o convertMessages(Tail(msgs))

\* The messages of a request.
MessageInputs ==
  { SystemPrompt,
    AIMessage("user", UserText, "", <<>>),
    AIMessage("user", UserText, "c9", <<ToolCall("c9", "read_file", <<"p">>)>>),
    AIMessage("assistant", <<"answer">>, "", <<>>),
    AIMessage("assistant", <<>>, "", <<>>),
    AIMessage("assistant", <<>>, "", <<ToolCall("c1", "read_file", <<"p">>)>>),
    AIMessage("assistant", <<"look">>, "",
              <<ToolCall("c1", "read_file", <<"p">>), ToolCall("c2", "list", <<>>)>>),
    AIMessage("tool", <<"out">>, "c1", <<>>),
    AIMessage("tool", <<"out">>, "", <<>>) }

RECURSIVE SeqsUpTo(_, _)
SeqsUpTo(S, n) ==
  IF n = 0 THEN { <<>> }
  ELSE SeqsUpTo(S, n - 1) \cup
       { Append(q, x) : q \in { r \in SeqsUpTo(S, n - 1) : Len(r) = n - 1 },
                        x \in S }

\* The requests: every history without tools, and every tool list behind a
\* single user message (the two conversions do not read each other's input).
ChatRequests ==
  { [messages |-> h, tools |-> <<>>] :
      h \in SeqsUpTo(MessageInputs, MaxMessages) } \cup
  { [messages |-> <<AIMessage("user", UserText, "", <<>>)>>, tools |-> t] :
      t \in SeqsUpTo(ToolInputs, MaxTools) }

\* What fetch resolves to: the status and the body.  The body of a success
\* is a completion with or without tool call, a completion whose tool call
\* has arguments that are no JSON, a document without choices, or no JSON.
HTTPResponse(status, body) == [status |-> status, body |-> body]

HTTPResponses ==
  { HTTPResponse(st, b) : st \in ErrorStatuses, b \in ErrorBodies } \cup
  { HTTPResponse(200, b) :
      b \in { <<"completion">>, <<"completion with call">>,
              <<"completion with bad call">>, <<"no choices">>,
              <<"not json">> } }

\* Response.ok
IsOk(response) == response.status >= 200 /\ response.status <= 299

\* minimax.ts:216-226, the ChatResponse
ChatResponse(content, toolCalls) == [content |-> content, toolCalls |-> toolCalls]

\* fetch has not resolved
NoResponse == HTTPResponse(0, <<>>)

InitChat ==
  /\ chatRequest \in ChatRequests
  /\ chatBody = <<>>
  /\ chatResponse = NoResponse
  /\ chatPc = "start"
  /\ chatResult = Pending
  /\ NoSession
  /\ NoStream
  /\ NoGateway

\* minimax.ts:178-198: the body is built and fetch is called
BuildBody ==
  /\ chatPc = "start"
  /\ chatBody' = [messages |-> convertMessages(chatRequest.messages),
                  tools |-> convertTools(chatRequest.tools)]
  /\ chatPc' = "fetch"
  /\ UNCHANGED <<chatRequest, chatResponse, chatResult>>
  /\ UNCHANGED <<streamVars, agentVars, gatewayVars>>

\* minimax.ts:191: fetch rejects; chat() has no try
ChatFetchThrows ==
  /\ chatPc = "fetch"
  /\ chatPc' = "done"
  /\ chatResult' = Settled("threw", ErrorText("fetch failed", 0, <<>>))
  /\ UNCHANGED <<chatRequest, chatBody, chatResponse>>
  /\ UNCHANGED <<streamVars, agentVars, gatewayVars>>

\* minimax.ts:191-198: fetch resolves
ChatResponds ==
  /\ chatPc = "fetch"
  /\ chatResponse' \in HTTPResponses
  /\ chatPc' = "responded"
  /\ UNCHANGED <<chatRequest, chatBody, chatResult>>
  /\ UNCHANGED <<streamVars, agentVars, gatewayVars>>

\* mutant: a failure status is answered with an empty response
NotOkSettlementReturns(response) == Settled("returned", ChatResponse(<<>>, <<>>))

\* minimax.ts:200-203
NotOkSettlement(response) ==
  Settled("threw", ErrorText("MiniMax API error", response.status, response.body))

\* minimax.ts:200-203
ChatNotOk ==
  /\ chatPc = "responded"
  /\ ~IsOk(chatResponse)
  /\ chatPc' = "done"
  /\ chatResult' = NotOkSettlement(chatResponse)
  /\ UNCHANGED <<chatRequest, chatBody, chatResponse>>
  /\ UNCHANGED <<streamVars, agentVars, gatewayVars>>

\* minimax.ts:205-226: response.json(), choices[0] and JSON.parse of the
\* arguments throw on a body that is not what they expect
ChatOk ==
  /\ chatPc = "responded"
  /\ IsOk(chatResponse)
  /\ chatPc' = "done"
  /\ chatResult' =
       IF chatResponse.body = <<"completion">>
         THEN Settled("returned", ChatResponse(<<"answer">>, <<>>))
       ELSE IF chatResponse.body = <<"completion with call">>
         THEN Settled("returned",
                ChatResponse(<<>>, <<ToolCall("c1", "read_file",
                                       JSONParseObject(<<"{", "p", "}">>))>>))
       ELSE IF chatResponse.body = <<"not json">>
         THEN Settled("threw", ErrorText("SyntaxError", 0, <<>>))
       ELSE IF chatResponse.body = <<"completion with bad call">>
         THEN Settled("threw", ErrorText("SyntaxError", 0, <<>>))
       ELSE Settled("threw", ErrorText("TypeError", 0, <<>>))
  /\ UNCHANGED <<chatRequest, chatBody, chatResponse>>
  /\ UNCHANGED <<streamVars, agentVars, gatewayVars>>

NextChat ==
  \/ BuildBody
  \/ ChatFetchThrows
  \/ ChatResponds
  \/ ChatNotOk
  \/ ChatOk

SpecChat == InitChat /\ [][NextChat]_vars


\* ---------------------------------------- C28: the history on the wire
\* C28: the wire messages of a request are its messages, one for one and in
\* order, each with its role.  An assistant message with tool calls carries
\* them in order, each with its id, its name and an arguments text that is
\* JSON and parses back to the call's arguments, and its content is null
\* when it is empty; a tool message with a toolCallId carries it as
\* tool_call_id; every other content is the message's content, and no other
\* message has tool_calls or a tool_call_id.
C28_HistoryMapsOneToOne ==
  chatPc # "start" =>
    LET h == chatRequest.messages
        w == chatBody.messages
    IN /\ Len(w) = Len(h)
       /\ \A i \in 1..Len(h) :
            LET calls == h[i].role = "assistant" /\ h[i].toolCalls # <<>> IN
              /\ w[i].role = h[i].role
              /\ IF calls /\ h[i].content = <<>>
                   THEN w[i].content.null
                   ELSE ~w[i].content.null /\ w[i].content.text = h[i].content
              /\ IF calls
                   THEN /\ Len(w[i].tool_calls) = Len(h[i].toolCalls)
                        /\ \A k \in 1..Len(h[i].toolCalls) :
                             /\ w[i].tool_calls[k].id = h[i].toolCalls[k].id
                             /\ w[i].tool_calls[k].type = "function"
                             /\ w[i].tool_calls[k].function.name =
                                  h[i].toolCalls[k].name
                             /\ IsJSONObject(w[i].tool_calls[k].function.arguments)
                             /\ JSONParseObject(
                                  w[i].tool_calls[k].function.arguments) =
                                  h[i].toolCalls[k].arguments
                   ELSE w[i].tool_calls = <<>>
              /\ w[i].tool_call_id =
                   IF h[i].role = "tool" THEN h[i].toolCallId ELSE ""

\* The body of a request whose history is an assistant message with a tool
\* call and no text, followed by the tool's answer.
C28_CallAndAnswerOnWire ==
  /\ chatPc = "fetch"
  /\ Len(chatRequest.messages) = 2
  /\ chatRequest.messages[1].toolCalls # <<>>
  /\ chatBody.messages[1].content.null
  /\ chatBody.messages[2].tool_call_id = "c1"


\* ------------------------------------------- C29: the tools on the wire
\* The tools that convertTools keeps: those with a name and a description.
RECURSIVE Transmitted(_)
Transmitted(tools) ==
  IF tools = <<>> THEN <<>>
  ELSE IF Head(tools).name = <<>> \/ Head(tools).description = 0
    THEN Transmitted(Tail(tools))
    ELSE <<Head(tools)>> \o Transmitted(Tail(tools))

\* The characters of the modelled names that are letters or digits.
Alphanumeric == {"a", "b", "x", "y", "mcp"}

\* C29: every tool of the request body has a name made of letters, digits,
\* underscores and hyphens, a description of at most 1000 characters and
\* parameters with a properties object and a required list, which are those
\* of the input when it has them and empty when it has not.
C29_ToolsAreSanitized ==
  chatPc # "start" =>
    LET given == Transmitted(chatRequest.tools)
        sent == chatBody.tools
    IN /\ Len(sent) = Len(given)
       /\ \A i \in 1..Len(sent) :
            LET f == sent[i].function
                ps == given[i].parameters
            IN /\ Len(f.name) = Len(given[i].name)
               /\ \A k \in 1..Len(f.name) :
                    f.name[k] \in Alphanumeric \cup {"_", "-"}
               /\ f.description <= 1000
               /\ f.parameters.kind = "object"
               /\ f.parameters.properties.kind = "object"
               /\ f.parameters.required.kind = "array"
               /\ f.parameters.properties.items =
                    IF ps.kind = "object" /\ ps.properties.kind = "object"
                      THEN ps.properties.items ELSE <<>>
               /\ f.parameters.required.items =
                    IF ps.kind = "object" /\ ps.required.kind = "array"
                      THEN ps.required.items ELSE <<>>

\* A tool with a dot, a blank and a slash in its name, a description of
\* 1001 characters and null parameters has been put into the request body.
C29_UnsafeToolSent ==
  /\ chatPc = "fetch"
  /\ Len(chatRequest.tools) = 1
  /\ chatRequest.tools[1].name = <<"a", ".", "b", " ", "/">>
  /\ chatRequest.tools[1].description = 1001
  /\ chatRequest.tools[1].parameters.kind = "null"
  /\ Len(chatBody.tools) = 1

\* ------------------------------------------- C30: chat and the HTTP status
\* C30: when the endpoint has answered with a status outside 200..299,
\* chat() throws an error that carries that status and the response body;
\* chat() returns a response only when the status is inside 200..299 (and
\* never when fetch itself failed).
C30_NotOkThrowsStatusAndBody ==
  chatPc = "done" =>
    LET success == chatResponse.status >= 200 /\ chatResponse.status <= 299 IN
      /\ chatResult.kind \in {"returned", "threw"}
      /\ (chatResponse # NoResponse /\ ~success) =>
           /\ chatResult.kind = "threw"
           /\ chatResult.value.msg = "MiniMax API error"
           /\ chatResult.value.status = chatResponse.status
           /\ chatResult.value.body = chatResponse.body
      /\ chatResult.kind = "returned" =>
           /\ success
           /\ chatResult.value \in
                { ChatResponse(<<"answer">>, <<>>),
                  ChatResponse(<<>>, <<ToolCall("c1", "read_file", <<"p">>)>>) }

\* chat() has thrown on a status 500 whose body is an event-stream line.
C30_ThrewOn500 ==
  /\ chatPc = "done"
  /\ chatResponse.status = 500
  /\ chatResponse.body # <<"junk">>
  /\ chatResult.kind = "threw"

\* ------------------------------------------ chatStream: further properties
\* C31: when the consumer abandons the sequence before it is exhausted, the
\* generator stops reading and the response body is cancelled or closed, so
\* that the connection behind it is released.  The finally block only
\* releases the reader's lock: the body stays readable.
C31_AbandonReleasesConnection ==
  gen = "abandoned" => reader \in {"cancelled", "closed"}

\* Whether the frame a line carries has finish_reason "tool_calls".
FinishesCalls(ln) ==
  /\ ln # <<>>
  /\ Head(ln) = "data: "
  /\ IsJSONChunk(Tail(ln))
  /\ JSONParseChunk(Tail(ln)).finish_reason = "tool_calls"

\* C36: at finalisation a slot whose argument text is not valid JSON does
\* not suppress the others: every slot whose text is valid (or empty, which
\* stands for {}) is emitted as a toolCall event of the finishing frame.
C36_InvalidSlotIsIsolated ==
  [][ (gen = "read" /\ lines # <<>> /\ lineNo' = lineNo + 1
         /\ FinishesCalls(Head(lines)))
        => \A i \in 1..Len(toolCallsBuffer') :
             LET tc == toolCallsBuffer'[i]
             IN (tc.args = <<>> \/ IsJSONObject(tc.args))
                  => \E k \in (Len(events) + 1)..Len(events') :
                       /\ events'[k].type = "tool_call"
                       /\ events'[k].slot = tc.index
    ]_vars

\* C37: when done has been emitted, every complete data frame of the body
\* has been processed, once: the lines before the last newline have all
\* gone through the loop, and what follows the last newline is no complete
\* frame that was left behind.
C37_EveryFrameProcessedBeforeDone ==
  (gen = "returned" /\ net.outcome = "ok")
    => /\ lineNo = Len(AllLines)
       /\ ~(/\ buffer # <<>>
             /\ Head(buffer) = "data: "
             /\ IsJSONChunk(Tail(buffer)))

\* ------------------------------------------- handleSubmit: further properties
\* C32: when the stream of a model turn has completed and no tool call was
\* collected, the turn is final: chatStream is not called again and the
\* conversation gains exactly one assistant message, the buffered text
\* (without its think blocks).
C32_ZeroCallsTurnIsFinal ==
  [][ (/\ pc = "post"
       /\ cursor > Len(reply.chunks)
       /\ toolResults = <<>>
       /\ pc' # "post")
        => /\ pc' = "finally"
           /\ streamCalls' = streamCalls
           /\ Len(messages') = Len(messages) + 1
           /\ Last(messages').role = "assistant"
           /\ Last(messages').content = filterThinking(fullText)
    ]_vars

\* C33: a tool is executed only once the stream of the current model turn
\* has completed: while a tool runs, the done event of that stream has been
\* received.
C33_ToolsRunAfterDone ==
  pc = "tool" => \E i \in 1..(cursor - 1) : reply.chunks[i].type = "done"

\* The tool-call deltas of the frame a line carries.
DeltasOf(ln) ==
  IF ln # <<>> /\ Head(ln) = "data: " /\ IsJSONChunk(Tail(ln))
    THEN JSONParseChunk(Tail(ln)).tool_calls
    ELSE <<>>

\* C34: the accumulator of a slot is initialised anew only by a frame that
\* brings a new id for the slot; a frame without id, or with the id the
\* slot already has, appends its fragment to the text accumulated so far.
\* (The frames of the model carry one delta each.)
C34_SameIdAppends ==
  [][ (gen = "read" /\ lines # <<>> /\ lineNo' = lineNo + 1)
        => \A j \in 1..Len(DeltasOf(Head(lines))) :
             LET tc == DeltasOf(Head(lines))[j]
             IN (/\ MapHas(toolCallsBuffer, tc.index)
                 /\ tc.id \in {NoId, MapGet(toolCallsBuffer, tc.index).id})
                  => MapGet(toolCallsBuffer', tc.index).args
                       = MapGet(toolCallsBuffer, tc.index).args \o tc.arguments
    ]_vars

\* C40: with YOLO off a turn sends no tool definitions and executes no
\* tool, whatever the stream contains, and makes a single chatStream call.
C40_YoloOffUsesNoTools ==
  ~yolo =>
    /\ pc # "tool"
    /\ toolResults = <<>>
    /\ ~hasToolCalls
    /\ \A i \in 1..Len(messages) : messages[i].role # "tool"
    /\ streamCalls <= 1
    /\ streamCalls = 1 => chatRequest.tools = <<>>

\* A turn with YOLO off has ended after one stream that held a tool call.
C40_CallIgnoredWithYoloOff ==
  /\ ~yolo
  /\ pc = "idle"
  /\ turns >= 1
  /\ streamCalls = 1
  /\ \E i \in 1..Len(reply.chunks) : reply.chunks[i].type = "tool_call"
  /\ cursor > Len(reply.chunks)

\* --------------------------------------------- MCPManager: further properties
\* The subprocesses that run: spawned and not closed.
LiveHandles == (1..spawned) \ closed

\* C35: every subprocess that was spawned and not closed is the one the
\* live map holds under its server name, or the one the connectServer in
\* progress is about to store; this holds also after a connect has failed.
C35_LiveSubprocessesAreReferenced ==
  \A h \in LiveHandles :
    \/ \E i \in 1..Len(clients) : clients[i].client = h
    \/ op.pc \in {"handshake", "listTools"} /\ op.handle = h

\* C38: the MCP tools a chatStream request would carry now all belong to a
\* server that is connected now: once a server has been disconnected, its
\* tools are no longer offered.  (When the manager is at rest.)
C38_OfferedToolsAreConnected ==
  op.pc \in {"idle", "done"} =>
    \A k \in 1..Len(mcpTools) :
      \E i \in 1..Len(clients) :
        \E j \in 1..Len(clients[i].tools) : clients[i].tools[j] = mcpTools[k]

\* C39: a call that starts on the name under which an advertised MCP tool
\* was transmitted to the endpoint (its qualified name after sanitisation)
\* is forwarded to the subprocess of the tool's own server with the tool's
\* original name.  (Built-in names are made of letters and underscores and
\* do not start with mcp_: they are transmitted as they are.)
C39_WireNamesResolve ==
  [][ (mcpCall.pc \in {"idle", "done"} /\ mcpCall' # mcpCall) =>
        \A i \in 1..Len(clients) :
          \A j \in 1..Len(clients[i].tools) :
            (/\ \E k \in 1..Len(mcpTools) : mcpTools[k] = clients[i].tools[j]
             /\ mcpCall'.toolName = SanitizeName(clients[i].tools[j].name))
              => /\ mcpCall'.pc = "awaiting"
                 /\ mcpCall'.handle = clients[i].client
                 /\ mcpCall'.sent = ListedTools(clients[i].name)[j] ]_vars

====
